---- MODULE Spec2Model ----
(***************************************************************************)
(* A model of the 2D action-game runtime: tile map collision, camera,      *)
(* player, enemies, heart pickups and the engine's update loop.            *)
(*                                                                         *)
(* Numbers.  The program computes in floating point.  The model computes   *)
(* in fixed point: a length is an integer number of 1/U pixels, a time an  *)
(* integer number of milliseconds.  A product or quotient is truncated     *)
(* toward zero (Trunc), Math.hypot is the integer square root (Hypot),     *)
(* Math.floor of a pixel value is floor division by U.                     *)
(***************************************************************************)
EXTENDS Integers, Sequences, FiniteSets, TLC

VARIABLES
  map,       \* TileMap: WORLD_W, WORLD_H, tiledColliders (fixed after load)
  camera,    \* Camera: x, y, viewW, viewH, worldW, worldH
  player,    \* Player fields
  enemies,   \* enemy id -> Enemy fields
  projectiles, \* sequence of the EnemyProjectile objects created so far
  hearts,    \* heart id -> HeartPickup fields
  pickups,   \* key id -> KeyPickup fields
  scrolls,   \* scroll id -> ScrollStoryPickup fields
  game,      \* GameEngine fields: flags, keys, clockTick, entities
  sched,     \* position of the engine's update loop
  hist       \* history of the takeDamage calls (observation only)

vars == <<map, camera, player, enemies, projectiles, hearts, pickups, scrolls, game,
          sched, hist>>

-----------------------------------------------------------------------------
(* Bounds of the model *)

\* units per pixel of the fixed-point lengths
U == 10
\* the engine loop runs at most this many ticks
MaxTick == 9
\* calls made on the player alone
MaxCalls == 5
\* Camera.follow calls made on the camera alone
MaxFollow == 3

-----------------------------------------------------------------------------
(* Arithmetic *)

Max(a, b) == IF a >= b THEN a ELSE b
Min(a, b) == IF a <= b THEN a ELSE b
Abs(a) == IF a >= 0 THEN a ELSE -a
MinOf(S) == CHOOSE m \in S : \A n \in S : m <= n

\* a / b truncated toward zero, b > 0
Trunc(a, b) == IF a >= 0 THEN a \div b ELSE -((-a) \div b)

RECURSIVE SqrtIter(_, _)
SqrtIter(n, x) ==
  LET y == (x + (n \div x)) \div 2
  IN IF y >= x THEN x ELSE SqrtIter(n, y)

\* floor of the square root of n >= 0
ISqrt(n) == IF n = 0 THEN 0 ELSE SqrtIter(n, n)

\* Math.hypot(dx, dy)
Hypot(dx, dy) == ISqrt(dx * dx + dy * dy)

\* Math.hypot(dx, dy) <= r, decided on the squares
Within(dx, dy, r) == r >= 0 /\ dx * dx + dy * dy <= r * r

\* a pixel length as model units
Px(n) == n * U

\* clamp(v, min, max) of Player and Camera
clamp(v, lo, hi) == Max(lo, Min(hi, v))

-----------------------------------------------------------------------------
(* TileMap (Tiled TMJ variant) *)

\* a collider test that does not look at the type
PointHitsSolidCollider_AnyType(m, x, y) ==
  \E r \in m.tiledColliders :
    /\ x >= r.x /\ x < r.x + r.w
    /\ y >= r.y /\ y < r.y + r.h

\* TileMap._pointHitsSolidCollider
PointHitsSolidCollider(m, x, y) ==
  \E r \in m.tiledColliders :
    /\ r.type = "solid"
    /\ x >= r.x /\ x < r.x + r.w
    /\ y >= r.y /\ y < r.y + r.h

\* TileMap.isBlockedAtWorld
IsBlockedAtWorld(m, x, y) ==
  \/ x < 0 \/ y < 0 \/ x >= m.WORLD_W \/ y >= m.WORLD_H
  \/ PointHitsSolidCollider(m, x, y)

-----------------------------------------------------------------------------
(* Camera *)

\* a follow that clamps only from below
Camera_follow_NoUpperClamp(c, targetX, targetY) ==
  [c EXCEPT !.x = Max(0, targetX - Trunc(c.viewW, 2)),
            !.y = Max(0, targetY - Trunc(c.viewH, 2))]

\* Camera.follow
Camera_follow(c, targetX, targetY) ==
  [c EXCEPT !.x = clamp(targetX - Trunc(c.viewW, 2), 0, c.worldW - c.viewW),
            !.y = clamp(targetY - Trunc(c.viewH, 2), 0, c.worldH - c.viewH)]

\* Camera.renderX, in whole pixels
renderX(c) == c.x \div U
\* Camera.renderY, in whole pixels
renderY(c) == c.y \div U

-----------------------------------------------------------------------------
(* The world: the objects one update may read or write, as one record *)

World ==
  [map |-> map, camera |-> camera, player |-> player, enemies |-> enemies,
   projectiles |-> projectiles, hearts |-> hearts, pickups |-> pickups,
   scrolls |-> scrolls, game |-> game, hist |-> hist]

Commit(w) ==
  /\ map' = w.map
  /\ camera' = w.camera
  /\ player' = w.player
  /\ enemies' = w.enemies
  /\ projectiles' = w.projectiles
  /\ hearts' = w.hearts
  /\ pickups' = w.pickups
  /\ scrolls' = w.scrolls
  /\ game' = w.game
  /\ hist' = w.hist

\* game.clockTick || 1 / 60, in ms
Dt(g) == IF g.clockTick = 0 THEN 1000 \div 60 ELSE g.clockTick

\* stands for "no object" in the call log
None == [none |-> TRUE]

\* the call log is per step: every update starts with an empty one
NoCalls(w) ==
  [w EXCEPT !.hist.pCalls = 0,
            !.hist.pPre = None,
            !.hist.hpPre = w.player.hp,
            !.hist.heals = 0,
            !.hist.prLast = 0,
            !.hist.kLast = 0,
            !.hist.eLast = 0,
            !.hist.uPre = None,
            !.hist.keysPre = w.game.keysCollected,
            !.hist.eCalls = [i \in DOMAIN w.enemies |-> 0],
            !.hist.ePre = [i \in DOMAIN w.enemies |-> None]]

-----------------------------------------------------------------------------
(* Player *)

\* Player tuning set in the constructor
DRAW_SIZE == 128
SPEED == 3
FOOT_OFFSET_Y == 18
FOOT_RADIUS == 12
PLAYER_MAX_HP == 15
IFRAMES == 600
KNOCK == 6
attackCooldownTime == 100
attack2CooldownTime == 10000

\* an attack clip that is never over
ClipOver_Never(el, cfg) == FALSE

\* the end test of an attack: this.animElapsed >= cfg.frames * cfg.ft
ClipOver(el, cfg) == el >= cfg.frames * cfg.ft

\* Player.ANIM: frames and frame time (ms) of each clip; the four directions
\* of a clip have the same frames and frame time
PlayerAnim ==
  [idle    |-> [frames |-> 8, ft |-> 120],
   walk    |-> [frames |-> 8, ft |-> 90],
   attack  |-> [frames |-> 8, ft |-> 70],
   attack2 |-> [frames |-> 8, ft |-> 45]]

\* the state after new Player(...)
NewPlayer(m) ==
  [x |-> m.spawnX, y |-> m.spawnY,
   attackCooldown |-> 0, attack2Cooldown |-> 0,
   dir |-> "down", moving |-> FALSE,
   attacking |-> FALSE, attackHeld |-> FALSE, attackDidHit |-> FALSE,
   attacking2 |-> FALSE, attack2Held |-> FALSE, attack2DidHit |-> FALSE,
   attack2HitSet |-> {},
   isDead |-> FALSE, maxHp |-> PLAYER_MAX_HP, hp |-> PLAYER_MAX_HP,
   hurtInvuln |-> 0, flashTimer |-> 0, knockVX |-> 0, knockVY |-> 0,
   animElapsed |-> 0, animKey |-> [state |-> "idle", dir |-> "down"]]

\* Player.canStandAt: the feet point and four points around it
canStandAt(m, x, y) ==
  LET fx == x
      fy == y + Px(FOOT_OFFSET_Y)
      r == Px(FOOT_RADIUS)
  IN ~( \/ IsBlockedAtWorld(m, fx, fy)
        \/ IsBlockedAtWorld(m, fx - r, fy)
        \/ IsBlockedAtWorld(m, fx + r, fy)
        \/ IsBlockedAtWorld(m, fx, fy - r)
        \/ IsBlockedAtWorld(m, fx, fy + r) )

\* Player.takeDamage, first early return
PlayerDeadGuard(p) == p.isDead \/ p.hp <= 0

\* an i-frame guard that is never taken
PlayerInvulnGuard_Off(p) == FALSE

\* Player.takeDamage, second early return
PlayerInvulnGuard(p) == p.hurtInvuln > 0

\* damage without the floor
DamagedHp_NoFloor(hp, amount) == hp - amount

\* Player.takeDamage: Math.max(0, hp - amount)
DamagedHp(hp, amount) == Max(0, hp - amount)

\* a knockback that points at the source
KnockVelocity_Toward(px, py, fromX, fromY) ==
  LET dx == fromX - px
      dy == fromY - py
      h == Hypot(dx, dy)
      len == IF h = 0 THEN Px(1) ELSE h
  IN [vx |-> Trunc(dx * Px(KNOCK), len), vy |-> Trunc(dy * Px(KNOCK), len)]

\* Player.takeDamage: KNOCK times the unit vector from the source to the player
KnockVelocity(px, py, fromX, fromY) ==
  LET dx == px - fromX
      dy == py - fromY
      h == Hypot(dx, dy)
      len == IF h = 0 THEN Px(1) ELSE h
  IN [vx |-> Trunc(dx * Px(KNOCK), len), vy |-> Trunc(dy * Px(KNOCK), len)]

\* Player.die; game.triggerGameOver (main.js) sets game.gameOver
Player_die(w) ==
  [w EXCEPT !.player.isDead = TRUE,
            !.player.attacking = FALSE,
            !.player.attacking2 = FALSE,
            !.player.moving = FALSE,
            !.game.gameOver = TRUE]

\* Player.takeDamage(amount, fromX, fromY); from.known is FALSE for a null source
Player_takeDamage(w, amount, from) ==
  LET p == w.player IN
  IF PlayerDeadGuard(p) THEN w
  ELSE IF PlayerInvulnGuard(p) THEN w
  ELSE
    LET k == KnockVelocity(p.x, p.y, from.x, from.y)
        w1 == [w EXCEPT !.player.hp = DamagedHp(p.hp, amount),
                        !.player.hurtInvuln = IFRAMES,
                        !.player.flashTimer = IFRAMES,
                        !.player.attacking = FALSE,
                        !.player.attacking2 = FALSE,
                        !.player.attackDidHit = FALSE,
                        !.player.attack2DidHit = FALSE,
                        !.player.attack2HitSet = {}]
        w2 == IF from.known
              THEN [w1 EXCEPT !.player.knockVX = k.vx, !.player.knockVY = k.vy]
              ELSE w1
    IN IF w2.player.hp = 0 THEN Player_die(w2) ELSE w2

\* a call of player.takeDamage, logged in hist: the arguments and the player
\* as the call found it
CallPlayerTakeDamage(w, amount, from) ==
  LET w1 == Player_takeDamage(w, amount, from)
  IN [w1 EXCEPT !.hist.pCalls = @ + 1,
                !.hist.pPre = w.player,
                !.hist.pArg = [amount |-> amount, from |-> from]]

\* Player.getAttackCircle
getAttackCircle(p) ==
  LET forward == Px(34)
  IN [cx |-> IF p.dir = "left" THEN p.x - forward
             ELSE IF p.dir = "right" THEN p.x + forward ELSE p.x,
      cy |-> IF p.dir = "up" THEN p.y - forward
             ELSE IF p.dir = "down" THEN p.y + forward ELSE p.y,
      r |-> Px(36)]

\* Player.getSplashCircle
getSplashCircle(p) == [cx |-> p.x, cy |-> p.y, r |-> Px(85)]

\* Player.getCollisionAABBAt
Player_getCollisionAABBAt(x, y) ==
  [left |-> x - Px(12), top |-> (y + Px(12)) - Px(12), w |-> Px(24), h |-> Px(24)]

\* Player.circleIntersectsRect
circleIntersectsRect(c, rect) ==
  LET closestX == Max(rect.left, Min(c.cx, rect.left + rect.w))
      closestY == Max(rect.top, Min(c.cy, rect.top + rect.h))
      dx == c.cx - closestX
      dy == c.cy - closestY
  IN dx * dx + dy * dy <= c.r * c.r
-----------------------------------------------------------------------------
(* Enemy *)

\* EnemyCreator.TYPES: stats and clips (frames, frame time in ms); lengths and
\* speeds in 1/10 pixel, hurtRecovery -1 where the type has none, ranged where
\* the type has an onAttackFrame hook
TYPES ==
  [skeletonWhite |->
     [stats |-> [speed |-> 15, hp |-> 3, attackCooldown |-> 900,
                 attackHitRadius |-> 450, stopDist |-> 440, attackRange |-> 580,
                 holdInRange |-> FALSE, hurtRecovery |-> -1,
                 projectileSpeed |-> 0, projectileDamage |-> 0,
                 projectileLife |-> 0],
      ranged |-> FALSE,
      anim |-> [attack |-> [frames |-> 10, ft |-> 70],
                hurt   |-> [frames |-> 5,  ft |-> 100],
                die    |-> [frames |-> 13, ft |-> 90]]],
   zombie |->
     [stats |-> [speed |-> 12, hp |-> 4, attackCooldown |-> 1100,
                 attackHitRadius |-> 480, stopDist |-> 460, attackRange |-> 600,
                 holdInRange |-> FALSE, hurtRecovery |-> -1,
                 projectileSpeed |-> 0, projectileDamage |-> 0,
                 projectileLife |-> 0],
      ranged |-> FALSE,
      anim |-> [attack |-> [frames |-> 6, ft |-> 90],
                hurt   |-> [frames |-> 6, ft |-> 80],
                die    |-> [frames |-> 6, ft |-> 120]]],
   dragon |->
     [stats |-> [speed |-> 16, hp |-> 7, attackCooldown |-> 1400,
                 attackHitRadius |-> -9990, stopDist |-> 3000,
                 attackRange |-> 3200,
                 holdInRange |-> TRUE, hurtRecovery |-> 250,
                 projectileSpeed |-> 30, projectileDamage |-> 1,
                 projectileLife |-> 2400],
      ranged |-> TRUE,
      anim |-> [attack |-> [frames |-> 8, ft |-> 90],
                hurt   |-> [frames |-> 4, ft |-> 100],
                die    |-> [frames |-> 7, ft |-> 100]]]]

\* a stat given in 1/10 pixel, as model units
Tenths(n) == (n * U) \div 10

\* EnemyCreator.buildDef: the type's stats merged with the overrides of the
\* spawn plan; over.hp and over.projectileDamage are 0 where not overridden
buildDef(type, over) ==
  [hp |-> IF over.hp > 0 THEN over.hp ELSE TYPES[type].stats.hp,
   projectileDamage |-> IF over.projectileDamage > 0 THEN over.projectileDamage
                        ELSE TYPES[type].stats.projectileDamage]

\* the state after EnemyCreator.create(type, overrides) once main.js (or
\* Enemy.pickRandomSpawn) has placed the enemy at (x, y); startHp remembers
\* the hp it was built with
NewEnemy(type, over, x, y, asleep) ==
  [type |-> type, x |-> x, y |-> y,
   hp |-> buildDef(type, over).hp, startHp |-> buildDef(type, over).hp,
   projectileDamage |-> buildDef(type, over).projectileDamage,
   asleep |-> asleep, state |-> "idle", animElapsed |-> 0,
   hurtLocked |-> FALSE, attackLocked |-> FALSE, spawnLocked |-> FALSE,
   dead |-> FALSE, removeFromWorld |-> FALSE, facing |-> "left",
   attackDidHit |-> FALSE, attackCooldown |-> 0, projectileFired |-> FALSE]

\* Enemy.getCollisionAABBAt
Enemy_getCollisionAABBAt(x, y) ==
  [left |-> x - Px(13), top |-> y - Px(13), w |-> Px(26), h |-> Px(26)]

\* a guard that lets a dead or hurt-locked enemy be damaged again
EnemyDamageGuard_Off(e) == FALSE

\* Enemy.takeDamage, early return
EnemyDamageGuard(e) == e.dead \/ e.hurtLocked

\* Enemy.takeDamage: this.hp -= amount
EnemyDamagedHp(hp, amount) == hp - amount

\* a hit that leaves a running swing locked
SwingAfterHit_Kept(e) == e.attackLocked

\* Enemy.takeDamage, hurt state: this.attackLocked = false
SwingAfterHit(e) == FALSE

\* Enemy.takeDamage(amount), on the enemy's fields
Enemy_takeDamage(e, amount) ==
  IF EnemyDamageGuard(e) THEN e
  ELSE
    LET hp1 == EnemyDamagedHp(e.hp, amount) IN
    IF hp1 <= 0
    THEN [e EXCEPT !.hp = hp1, !.dead = TRUE, !.state = "die", !.animElapsed = 0,
                   !.attackLocked = FALSE, !.hurtLocked = FALSE,
                   !.spawnLocked = FALSE]
    ELSE [e EXCEPT !.hp = hp1, !.state = "hurt", !.animElapsed = 0,
                   !.hurtLocked = TRUE, !.attackLocked = SwingAfterHit(e)]

\* a call of ent.takeDamage(amount) by the player, logged in hist: the amount
\* and the enemy as the call found it
CallEnemyTakeDamage(w, i, amount) ==
  [w EXCEPT !.enemies[i] = Enemy_takeDamage(@, amount),
            !.hist.eCalls[i] = @ + 1,
            !.hist.ePre[i] = w.enemies[i],
            !.hist.pSwing[i] = @ + 1,
            !.hist.eAmount[i] = amount]

\* Enemy.startAttack
Enemy_startAttack(e) ==
  [e EXCEPT !.state = "attack", !.animElapsed = 0, !.attackLocked = TRUE,
            !.attackDidHit = FALSE, !.projectileFired = FALSE,
            !.attackCooldown = TYPES[e.type].stats.attackCooldown]

\* Enemy.isPlayerInAttackRadius
isPlayerInAttackRadius(e, p) ==
  LET enemyBox == Enemy_getCollisionAABBAt(e.x, e.y)
      playerBox == Player_getCollisionAABBAt(p.x, p.y)
      pad == Trunc(Max(enemyBox.w, enemyBox.h) + Max(playerBox.w, playerBox.h), 4)
  IN Within(p.x - e.x, p.y - e.y,
            Tenths(TYPES[e.type].stats.attackHitRadius) + pad)

\* the unit vector (dx, dy) / hypot, in 1/1000
UnitVec(dx, dy) ==
  LET h == Hypot(dx, dy)
      len == IF h = 0 THEN Px(1) ELSE h
  IN [vx |-> Trunc(dx * 1000, len), vy |-> Trunc(dy * 1000, len)]

\* new EnemyProjectile(...): the direction is fixed at spawn
NewProjectile(x, y, vx, vy, speed, damage, life) ==
  [x |-> x, y |-> y, vx |-> vx, vy |-> vy, speed |-> speed, damage |-> damage,
   life |-> life, radius |-> Px(14), removeFromWorld |-> FALSE]

\* the projectile log of hist at the creation of pr: the projectile as
\* created, no update, no time, no hit
LogNewProjectile(h, pr) ==
  [h EXCEPT !.shots = Append(@, pr), !.prAge = Append(@, 0),
            !.prTime = Append(@, 0), !.prHits = Append(@, 0)]

\* game.addEntity of a new projectile: appended to game.entities
AddProjectile(w, pr) ==
  [w EXCEPT !.projectiles = Append(@, pr),
            !.game.entities =
               Append(@, [tag |-> "enemy_projectile", id |-> Len(w.projectiles) + 1]),
            !.hist = LogNewProjectile(@, pr)]

\* a fire test that does not look at the fired-once flag
ShouldFire_EveryTime(e, frame) == frame = 5

\* onAttackFrame: if (enemy.projectileFired) return; if (frame !==
\* FIRE_FRAME) return;
ShouldFire(e, frame) == ~e.projectileFired /\ frame = 5

\* the dragon's onAttackFrame hook (EnemyCreator.TYPES.dragon)
onAttackFrame(w, i, frame) ==
  LET e == w.enemies[i]
      S == TYPES[e.type].stats
  IN IF ~TYPES[e.type].ranged THEN w
     ELSE IF ~ShouldFire(e, frame) THEN w
     ELSE LET v == UnitVec(w.player.x - e.x, w.player.y - e.y)
              spawnX == e.x + Trunc(v.vx * Px(40), 1000)
              spawnY == e.y + Trunc(v.vy * Px(20), 1000)
              pr == NewProjectile(spawnX, spawnY, v.vx, v.vy,
                                  Tenths(S.projectileSpeed), e.projectileDamage,
                                  S.projectileLife)
          IN AddProjectile([w EXCEPT !.enemies[i].projectileFired = TRUE], pr)

\* a lifetime test that lets the projectile live one update longer
ProjectileExpired_Late(life) == life < 0

\* EnemyProjectile.update: if (this.life <= 0)
ProjectileExpired(life) == life <= 0

\* a hit that leaves the projectile in the world
ProjectileEndsOnHit_Off(pr) == pr.removeFromWorld

\* EnemyProjectile.update: removeFromWorld = true after the hit
ProjectileEndsOnHit(pr) == TRUE

\* the player is within radius + 18 of the projectile pr
ProjectileNearPlayer(pr, p) == Within(p.x - pr.x, p.y - pr.y, pr.radius + Px(18))

\* EnemyProjectile.update; hist counts the updates, their time and the hits
Projectile_update(w, k) ==
  LET pr == w.projectiles[k]
      dt == Dt(w.game)
      x1 == pr.x + Trunc(pr.vx * pr.speed, 1000)
      y1 == pr.y + Trunc(pr.vy * pr.speed, 1000)
      life1 == pr.life - dt
      w1 == [w EXCEPT !.projectiles[k].x = x1, !.projectiles[k].y = y1,
                      !.projectiles[k].life = life1,
                      !.hist.prAge[k] = @ + 1, !.hist.prTime[k] = @ + dt,
                      !.hist.prLast = k]
  IN IF ProjectileExpired(life1) THEN [w1 EXCEPT !.projectiles[k].removeFromWorld = TRUE]
     ELSE IF IsBlockedAtWorld(w.map, x1, y1)
     THEN [w1 EXCEPT !.projectiles[k].removeFromWorld = TRUE]
     ELSE IF ProjectileNearPlayer(w1.projectiles[k], w.player)
     THEN LET w2 == CallPlayerTakeDamage(w1, pr.damage,
                                         [known |-> TRUE, x |-> x1, y |-> y1])
          IN [w2 EXCEPT !.projectiles[k].removeFromWorld = ProjectileEndsOnHit(pr),
                        !.hist.prHits[k] = @ + 1]
     ELSE w1

\* a hit flag that is never set
MeleeHitFlag_Off(e) == e.attackDidHit

\* Enemy.update, melee hit window: this.attackDidHit = true after the call
MeleeHitFlag(e) == TRUE

\* Enemy.update, melee hit window (attack frames 3 to 5)
EnemyMeleeWindow(w, i, frame) ==
  LET e == w.enemies[i] IN
  IF /\ TYPES[e.type].stats.attackHitRadius > 0
     /\ ~e.attackDidHit
     /\ frame >= 3 /\ frame <= 5
     /\ isPlayerInAttackRadius(e, w.player)
  THEN LET w1 == CallPlayerTakeDamage(w, 1, [known |-> TRUE, x |-> e.x, y |-> e.y])
       IN [w1 EXCEPT !.enemies[i].attackDidHit = MeleeHitFlag(e),
                     !.hist.eSwing[i] = @ + 1]
  ELSE w

\* Enemy.update, chase: x += nx * SPEED, y += ny * SPEED, no map query
ChaseStep(m, e, dx, dy, dist) ==
  [x |-> e.x + Trunc(dx * Tenths(TYPES[e.type].stats.speed), dist),
   y |-> e.y + Trunc(dy * Tenths(TYPES[e.type].stats.speed), dist)]

\* an attack test that does not look at the cooldown
CanStartAttack_AnyCooldown(e, inRange) == inRange

\* Enemy.update: dist <= this.attackRange && this.attackCooldown === 0, read
\* after the cooldown has been run down by dt
CanStartAttack(e, inRange) == inRange /\ e.attackCooldown = 0

\* Enemy.update, from "Chase logic" on
EnemyChase(w, i, dt) ==
  LET e == w.enemies[i]
      S == TYPES[e.type].stats
      dx == w.player.x - e.x
      dy == w.player.y - e.y
      dist == Hypot(dx, dy)
      inRange == Within(dx, dy, Tenths(S.attackRange))
  IN IF CanStartAttack(e, inRange)
     THEN [w EXCEPT !.enemies[i] = Enemy_startAttack(e),
                    !.hist.eSwing[i] = 0]
     ELSE IF S.holdInRange /\ inRange
     THEN [w EXCEPT !.enemies[i].state = "idle",
                    !.enemies[i].animElapsed = @ + dt]
     ELSE IF ~Within(dx, dy, Tenths(S.stopDist))
     THEN LET to == ChaseStep(w.map, e, dx, dy, dist)
          IN [w EXCEPT !.enemies[i].x = to.x, !.enemies[i].y = to.y,
                       !.enemies[i].state = "walk",
                       !.enemies[i].animElapsed = @ + dt]
     ELSE [w EXCEPT !.enemies[i].state = "idle",
                    !.enemies[i].animElapsed = @ + dt]

\* an asleep test that lets a sleeping enemy run its AI
EnemyAsleep_Off(e) == FALSE

\* Enemy.update: if (this.asleep)
EnemyAsleep(e) == e.asleep

\* Enemy.update
Enemy_update(w, i) ==
  LET e == w.enemies[i]
      dt == Dt(w.game)
      A == TYPES[e.type].anim
      S == TYPES[e.type].stats
  IN
  IF EnemyAsleep(e)
  THEN [w EXCEPT !.enemies[i].state = "idle", !.enemies[i].animElapsed = @ + dt]
  ELSE
  LET facing == IF w.player.x - e.x < 0 THEN "left" ELSE "right"
      cd == IF e.attackCooldown > 0 THEN Max(0, e.attackCooldown - dt)
            ELSE e.attackCooldown
  IN
  IF e.spawnLocked \/ e.state = "spawn"
  THEN \* no type has a spawn clip: the lock is dropped at once
       [w EXCEPT !.enemies[i].facing = facing, !.enemies[i].spawnLocked = FALSE,
                 !.enemies[i].state = "idle", !.enemies[i].animElapsed = 0]
  ELSE IF e.dead
  THEN [w EXCEPT !.enemies[i].facing = facing, !.enemies[i].attackCooldown = cd,
                 !.enemies[i].animElapsed = @ + dt,
                 !.enemies[i].removeFromWorld =
                    IF e.animElapsed + dt >= A.die.frames * A.die.ft THEN TRUE ELSE @]
  ELSE IF e.hurtLocked
  THEN LET fullHurtTime == A.hurt.frames * A.hurt.ft
           endTime == IF S.hurtRecovery >= 0 THEN Min(S.hurtRecovery, fullHurtTime)
                      ELSE fullHurtTime
       IN IF e.animElapsed + dt >= endTime
          THEN [w EXCEPT !.enemies[i].facing = facing,
                         !.enemies[i].attackCooldown = cd,
                         !.enemies[i].hurtLocked = FALSE,
                         !.enemies[i].state = "idle",
                         !.enemies[i].animElapsed = 0]
          ELSE [w EXCEPT !.enemies[i].facing = facing,
                         !.enemies[i].attackCooldown = cd,
                         !.enemies[i].animElapsed = @ + dt]
  ELSE IF e.attackLocked
  THEN LET el == e.animElapsed + dt
           frame == el \div A.attack.ft
           w1 == [w EXCEPT !.enemies[i].facing = facing,
                           !.enemies[i].attackCooldown = cd,
                           !.enemies[i].animElapsed = el]
           w2 == EnemyMeleeWindow(onAttackFrame(w1, i, frame), i, frame)
       IN IF ClipOver(el, A.attack)
          THEN [w2 EXCEPT !.enemies[i].attackLocked = FALSE,
                          !.enemies[i].state = "idle",
                          !.enemies[i].animElapsed = 0]
          ELSE w2
  ELSE EnemyChase([w EXCEPT !.enemies[i].facing = facing,
                            !.enemies[i].attackCooldown = cd], i, dt)

\* a call of Enemy.update, logged in hist: the enemy updated, the enemy and
\* the number of projectiles as the call found them and, for an enemy that was
\* dead at the call, the tick time of its updates since it died
CallEnemyUpdate(w, i) ==
  [Enemy_update(w, i) EXCEPT
     !.hist.eLast = i,
     !.hist.uPre = w.enemies[i],
     !.hist.uShots = Len(w.projectiles),
     !.hist.eDieTime[i] = IF w.enemies[i].dead THEN @ + Dt(w.game) ELSE @]

-----------------------------------------------------------------------------
(* Player: attacks and update *)

\* the enemies of game.entities, in list order, whose box the circle c meets
EnemiesInCircle(w, c) ==
  {k \in 1..Len(w.game.entities) :
     /\ w.game.entities[k].tag = "enemy"
     /\ LET en == w.enemies[w.game.entities[k].id]
        IN circleIntersectsRect(c, Enemy_getCollisionAABBAt(en.x, en.y))}

\* Player.tryHitEnemies: this.attackDidHit = true after the call
Attack1HitFlag(p) == TRUE

\* Player.tryHitEnemies (attack 1): the first enemy of the list in the circle
tryHitEnemies(w) ==
  IF w.player.attackCooldown > 0 THEN w
  ELSE
    LET hits == EnemiesInCircle(w, getAttackCircle(w.player)) IN
    IF hits = {} THEN w
    ELSE LET i == w.game.entities[MinOf(hits)].id
             w1 == CallEnemyTakeDamage(w, i, 1)
         IN [w1 EXCEPT !.player.attackCooldown = attackCooldownTime,
                       !.player.attackDidHit = Attack1HitFlag(w.player)]

\* a splash that forgets whom it has hit
SplashTargets_NoHitSet(w) ==
  {w.game.entities[k].id : k \in EnemiesInCircle(w, getSplashCircle(w.player))}

\* Player.tryHitEnemiesSplash: the enemies in the circle not yet in attack2HitSet
SplashTargets(w) ==
  {w.game.entities[k].id : k \in EnemiesInCircle(w, getSplashCircle(w.player))}
    \ w.player.attack2HitSet

RECURSIVE DamageAll(_, _, _)
DamageAll(w, T, amount) ==
  IF T = {} THEN w
  ELSE LET i == CHOOSE j \in T : TRUE
       IN DamageAll(CallEnemyTakeDamage(w, i, amount), T \ {i}, amount)

\* Player.tryHitEnemiesSplash (attack 2)
tryHitEnemiesSplash(w) ==
  LET T == SplashTargets(w)
      w1 == DamageAll(w, T, 2)
  IN [w1 EXCEPT !.player.attack2HitSet = @ \cup T]

\* Player.startAttack
Player_startAttack(w) ==
  [w EXCEPT !.player.attacking = TRUE, !.player.attacking2 = FALSE,
            !.player.moving = FALSE, !.player.attackDidHit = FALSE,
            !.player.animKey = [state |-> "attack", dir |-> w.player.dir],
            !.player.animElapsed = 0,
            !.hist.pSwing = [i \in DOMAIN w.enemies |-> 0],
            !.hist.pSwingKind = 1]

\* Player.startAttack2
Player_startAttack2(w) ==
  [w EXCEPT !.player.attacking2 = TRUE, !.player.attacking = FALSE,
            !.player.moving = FALSE, !.player.attack2DidHit = FALSE,
            !.player.attack2HitSet = {},
            !.player.attack2Cooldown = attack2CooldownTime,
            !.player.animKey = [state |-> "attack2", dir |-> w.player.dir],
            !.player.animElapsed = 0,
            !.hist.pSwing = [i \in DOMAIN w.enemies |-> 0],
            !.hist.pSwingKind = 2]

\* Player.getAnimKey
getAnimKey(p) ==
  [state |-> IF p.attacking2 THEN "attack2"
             ELSE IF p.attacking THEN "attack"
             ELSE IF p.moving THEN "walk" ELSE "idle",
   dir |-> p.dir]

\* an update that leaves the camera where it was
FollowPlayer_Off(w) == w

\* this.camera.follow(this.x, this.y)
FollowPlayer(w) ==
  [w EXCEPT !.camera = Camera_follow(@, w.player.x, w.player.y)]

\* Player.update, world bounds: clamp to [half, WORLD - half] on each axis
PlayerClamp(w) ==
  LET half == Trunc(Px(DRAW_SIZE), 2)
  IN [w EXCEPT !.player.x = clamp(@, half, w.map.WORLD_W - half),
               !.player.y = clamp(@, half, w.map.WORLD_H - half)]

\* Player.update, cooldowns
PlayerCooldowns(w, dt) ==
  [w EXCEPT !.player.attackCooldown = IF @ > 0 THEN Max(0, @ - dt) ELSE @,
            !.player.attack2Cooldown = IF @ > 0 THEN Max(0, @ - dt) ELSE @]

\* Player.update, i-frame and flash timers
PlayerTimers(w, dt) ==
  [w EXCEPT !.player.hurtInvuln = IF @ > 0 THEN Max(0, @ - dt) ELSE @,
            !.player.flashTimer = IF @ > 0 THEN Max(0, @ - dt) ELSE @]

\* Player.update: a move to (tx, ty) is committed only if canStandAt
TryMove(m, x, y, tx, ty) == canStandAt(m, tx, ty)

\* a knockback that keeps its velocity
KnockDamp_Off(v) == v

\* this.knockVX *= this.KNOCK_DAMP (0.75)
KnockDamp(v) == Trunc(v * 75, 100)

\* Player.update, knockback: one attempted move per axis, then damping
PlayerKnockback(w) ==
  LET p == w.player IN
  IF Abs(p.knockVX) * 100 > U \/ Abs(p.knockVY) * 100 > U
  THEN LET tryX == p.x + p.knockVX
           x1 == IF TryMove(w.map, p.x, p.y, tryX, p.y) THEN tryX ELSE p.x
           tryY == p.y + p.knockVY
           y1 == IF TryMove(w.map, x1, p.y, x1, tryY) THEN tryY ELSE p.y
       IN [w EXCEPT !.player.x = x1, !.player.y = y1,
                    !.player.knockVX = KnockDamp(@),
                    !.player.knockVY = KnockDamp(@)]
  ELSE w

\* an attack 1 test on the level of the key, not on its edge
Attack1Edge_Level(atk1, p) == atk1 /\ ~p.attacking /\ ~p.attacking2

\* Player.update: if (atk1 && !this.attackHeld && !this.attacking &&
\* !this.attacking2)
Attack1Edge(atk1, p) == atk1 /\ ~p.attackHeld /\ ~p.attacking /\ ~p.attacking2

\* an attack input where attack 1 starts over a running attack 2 and leaves
\* its flag as it was
PlayerAttackInput_Over(w) ==
  LET keys == w.game.keys
      atk1 == "1" \in keys
      atk2 == "2" \in keys
      p == w.player
      w1 == IF /\ atk2 /\ ~p.attack2Held /\ ~p.attacking /\ ~p.attacking2
               /\ p.attack2Cooldown = 0
            THEN Player_startAttack2(w) ELSE w
      p1 == w1.player
      w2 == IF atk1 /\ ~p1.attackHeld /\ ~p1.attacking
            THEN [Player_startAttack(w1) EXCEPT !.player.attacking2 = p1.attacking2]
            ELSE w1
  IN [w2 EXCEPT !.player.attackHeld = atk1]

\* Player.update, attack input (keys "1" and "2")
PlayerAttackInput(w) ==
  LET keys == w.game.keys
      atk1 == "1" \in keys
      atk2 == "2" \in keys
      p == w.player
      w1 == IF /\ atk2 /\ ~p.attack2Held /\ ~p.attacking /\ ~p.attacking2
               /\ p.attack2Cooldown = 0
            THEN Player_startAttack2(w) ELSE w
      p1 == w1.player
      w2 == IF Attack1Edge(atk1, p1) THEN Player_startAttack(w1) ELSE w1
  IN [w2 EXCEPT !.player.attackHeld = atk1]

\* Player.update, attack 1 branch
PlayerAttack1(w, dt) ==
  LET cfg == PlayerAnim[w.player.animKey.state]
      el == w.player.animElapsed + dt
      frame == el \div cfg.ft
      w1 == [w EXCEPT !.player.animElapsed = el]
      w2 == IF ~w1.player.attackDidHit /\ frame >= 2 /\ frame <= 4
            THEN tryHitEnemies(w1) ELSE w1
      w3 == IF ClipOver(el, cfg)
            THEN [w2 EXCEPT !.player.attacking = FALSE,
                            !.player.animElapsed = 0,
                            !.player.animKey = [state |-> "idle", dir |-> w.player.dir]]
            ELSE w2
      w4 == PlayerClamp(w3)
  IN FollowPlayer(w4)

\* Player.update, attack 2 branch
PlayerAttack2(w, dt) ==
  LET cfg == PlayerAnim[w.player.animKey.state]
      el == w.player.animElapsed + dt
      frame == el \div cfg.ft
      w1 == [w EXCEPT !.player.animElapsed = el]
      w2 == IF frame >= 6 /\ frame <= 12 THEN tryHitEnemiesSplash(w1) ELSE w1
      w3 == IF ClipOver(el, cfg)
            THEN [w2 EXCEPT !.player.attacking2 = FALSE,
                            !.player.animElapsed = 0,
                            !.player.animKey = [state |-> "idle", dir |-> w.player.dir],
                            !.player.attack2DidHit = FALSE,
                            !.player.attack2HitSet = {}]
            ELSE w2
      w4 == PlayerClamp(w3)
  IN FollowPlayer(w4)

\* Player.update, movement input (keys w, a, s, d), clamp, animation, camera
PlayerMove(w, dt) ==
  LET keys == w.game.keys
      p == w.player
      dy0 == (IF "s" \in keys THEN 1 ELSE 0) - (IF "w" \in keys THEN 1 ELSE 0)
      dx0 == (IF "d" \in keys THEN 1 ELSE 0) - (IF "a" \in keys THEN 1 ELSE 0)
      moving == dx0 # 0 \/ dy0 # 0
      dir == IF ~moving THEN p.dir
             ELSE IF Abs(dx0) > Abs(dy0) THEN (IF dx0 > 0 THEN "right" ELSE "left")
             ELSE (IF dy0 > 0 THEN "down" ELSE "up")
      \* SPEED on one axis, SPEED / sqrt(2) on each axis of a diagonal
      step == IF dx0 # 0 /\ dy0 # 0 THEN Trunc(Px(SPEED) * 1000, 1414)
              ELSE Px(SPEED)
      stepX == dx0 * step
      stepY == dy0 * step
      x1 == IF stepX # 0 /\ TryMove(w.map, p.x, p.y, p.x + stepX, p.y)
            THEN p.x + stepX ELSE p.x
      y1 == IF stepY # 0 /\ TryMove(w.map, x1, p.y, x1, p.y + stepY)
            THEN p.y + stepY ELSE p.y
      w1 == PlayerClamp([w EXCEPT !.player.moving = moving, !.player.dir = dir,
                                  !.player.x = x1, !.player.y = y1])
      nextKey == getAnimKey(w1.player)
      w2 == IF nextKey # p.animKey
            THEN [w1 EXCEPT !.player.animKey = nextKey, !.player.animElapsed = 0]
            ELSE [w1 EXCEPT !.player.animElapsed = @ + dt]
  IN FollowPlayer(w2)

\* Player.update
Player_update(w) ==
  LET dt == Dt(w.game) IN
  IF w.game.storyModalOpen
  THEN FollowPlayer(w)
  ELSE
    LET w1 == PlayerCooldowns(w, dt) IN
    IF w1.player.isDead \/ w1.game.gameOver \/ w1.game.win THEN w1
    ELSE
      LET w2 == PlayerAttackInput(PlayerKnockback(PlayerTimers(w1, dt))) IN
      IF w2.player.attacking THEN PlayerAttack1(w2, dt)
      ELSE IF w2.player.attacking2 THEN PlayerAttack2(w2, dt)
      ELSE PlayerMove(w2, dt)

-----------------------------------------------------------------------------
(* HeartPickup (ResourcePickup) *)

\* HeartPickup.onPickup: Math.min(maxHp, hp + 1)
HealedHp(p) == Min(p.maxHp, p.hp + 1)

\* HeartPickup.update: nothing after game over or win; ResourcePickup.checkPickup
Heart_update(w, h) ==
  LET ht == w.hearts[h] IN
  IF w.game.gameOver \/ w.game.win THEN w
  ELSE IF Within(w.player.x - ht.x, w.player.y - ht.y, ht.pickupRadius)
  THEN [w EXCEPT !.player.hp = HealedHp(w.player),
                 !.hearts[h].removeFromWorld = TRUE,
                 !.hist.heals = @ + 1]
  ELSE w
-----------------------------------------------------------------------------
(* KeyPickup and ScrollStoryPickup *)

\* opts.name ?? default
Opt(opts, name, default) == IF name \in DOMAIN opts THEN opts[name] ELSE default

\* new KeyPickup(game, AM, camera, player, x, y, opts): radius and wakeRadius
\* in pixels, guardEnemy the id of an enemy, 0 for null
NewKey(x, y, opts) ==
  [x |-> x, y |-> y,
   pickupRadius |-> Px(Opt(opts, "radius", 26)),
   removeFromWorld |-> FALSE,
   frameIndex |-> 0, animElapsed |-> 0,
   guardEnemy |-> Opt(opts, "guardEnemy", 0),
   wakeRadius |-> Px(Opt(opts, "wakeRadius", 180)),
   guardWoken |-> FALSE]

\* a pickup that leaves the key in the world
KeyMarksRemoval_Off(key) == key.removeFromWorld

\* KeyPickup.update: this.removeFromWorld = true after the pickup
KeyMarksRemoval(key) == TRUE

\* the player is within r of the point (x, y)
PlayerWithin(w, x, y, r) == Within(w.player.x - x, w.player.y - y, r)

\* KeyPickup.update; hist notes the key and counts its pickups
Key_update(w, k) ==
  LET key == w.pickups[k]
      dt == Dt(w.game)
      w0 == [w EXCEPT !.hist.kLast = k]
      turn == key.animElapsed + dt >= 80
      w1 == [w0 EXCEPT !.pickups[k].animElapsed = IF turn THEN 0 ELSE @ + dt,
                       !.pickups[k].frameIndex = IF turn THEN (@ + 1) % 18 ELSE @]
      wake == /\ key.guardEnemy # 0
              /\ ~key.guardWoken
              /\ PlayerWithin(w, key.x, key.y, key.wakeRadius)
      w2 == IF wake
            THEN [w1 EXCEPT !.pickups[k].guardWoken = TRUE,
                            !.enemies[key.guardEnemy].asleep = FALSE]
            ELSE w1
  IN IF w.game.gameOver THEN w0
     ELSE IF PlayerWithin(w, key.x, key.y, key.pickupRadius)
     THEN [w2 EXCEPT !.game.keysCollected = @ + 1,
                     !.pickups[k].removeFromWorld = KeyMarksRemoval(key),
                     !.hist.kPicks[k] = @ + 1]
     ELSE w2

\* new ScrollStoryPickup(game, AM, camera, player, x, y, opts)
NewScroll(x, y, opts) ==
  [x |-> x, y |-> y, removeFromWorld |-> FALSE,
   frameIndex |-> 0, animElapsed |-> 0,
   interactRadius |-> Px(Opt(opts, "radius", 70)),
   eHeld |-> FALSE]

\* ScrollStoryPickup.openStory
openStory(w) == [w EXCEPT !.game.storyModalOpen = TRUE]

\* ScrollStoryPickup.closeStory, the click handler of the close button
closeStory(w) == [w EXCEPT !.game.storyModalOpen = FALSE]

\* a trigger that does not look at storyRead
StoryTrigger_Again(eDown, sc, near, g) == eDown /\ ~sc.eHeld /\ near

\* if (eDown && !this.eHeld && near && !this.game.storyRead)
StoryTrigger(eDown, sc, near, g) == eDown /\ ~sc.eHeld /\ near /\ ~g.storyRead

\* ScrollStoryPickup.update
Scroll_update(w, k) ==
  LET sc == w.scrolls[k]
      dt == Dt(w.game)
      turn == sc.animElapsed + dt >= 300
      near == PlayerWithin(w, sc.x, sc.y, sc.interactRadius)
      eDown == "e" \in w.game.keys \/ "E" \in w.game.keys
      w1 == [w EXCEPT !.scrolls[k].animElapsed = IF turn THEN 0 ELSE @ + dt,
                      !.scrolls[k].frameIndex = IF turn THEN (@ + 1) % 10 ELSE @,
                      !.scrolls[k].eHeld = eDown]
  IN IF w.game.gameOver \/ w.game.win THEN w
     ELSE IF StoryTrigger(eDown, sc, near, w.game)
     THEN openStory([w1 EXCEPT !.game.storyRead = TRUE])
     ELSE w1

-----------------------------------------------------------------------------
(* ObjectiveManager and the win checker *)

\* the enemies in game.entities that are not flagged removeFromWorld
\* (ObjectiveManager._enemiesLeft, and the same filter in the win checker)
EnemiesLeft(w) ==
  Cardinality({k \in DOMAIN w.game.entities :
                 /\ w.game.entities[k].tag = "enemy"
                 /\ ~w.enemies[w.game.entities[k].id].removeFromWorld})

\* game.requiredKeys || 3
RequiredKeys(g) == IF g.requiredKeys = 0 THEN 3 ELSE g.requiredKeys

\* index of the last of ObjectiveManager.steps
LastStep == 3

\* ObjectiveManager.steps[k].isComplete()
StepComplete(w, k) ==
  CASE k = 0 -> w.game.storyRead
    [] k = 1 -> w.game.keysCollected >= RequiredKeys(w.game)
    [] k = 2 -> EnemiesLeft(w) = 0
    [] k = 3 -> w.game.win
    [] OTHER -> FALSE

\* a loop bound that lets the index leave the last step
ObjectivesInRange_PastLast(index) == index <= LastStep

\* ObjectiveManager.update, loop bound: index < steps.length - 1
ObjectivesInRange(index) == index < LastStep

\* ObjectiveManager.update, the while loop from index i
RECURSIVE ObjectivesLoop(_, _)
ObjectivesLoop(w, i) ==
  IF ObjectivesInRange(i) /\ StepComplete(w, i) THEN ObjectivesLoop(w, i + 1) ELSE i

\* an update that moves one step at most
Objectives_update_OneStep(w) ==
  LET i == w.game.objectives.index IN
  IF w.game.gameOver THEN w
  ELSE IF ObjectivesInRange(i) /\ StepComplete(w, i)
  THEN [w EXCEPT !.game.objectives.index = i + 1]
  ELSE w

\* ObjectiveManager.update
Objectives_update(w) ==
  IF w.game.gameOver THEN w
  ELSE [w EXCEPT !.game.objectives.index = ObjectivesLoop(w, @)]

\* gameEngine.triggerWin (main.js)
triggerWin(w) == [w EXCEPT !.game.win = TRUE]

\* the win checker entity of main.js, update
WinChecker_update(w) ==
  IF w.game.gameOver \/ w.game.win THEN w
  ELSE LET keysOk == w.game.keysCollected >= w.game.requiredKeys
       IN IF keysOk /\ EnemiesLeft(w) = 0 THEN triggerWin(w) ELSE w

\* HUD.update: the part that acts on the game, objectives.update()
HUD_update(w) == Objectives_update(w)
-----------------------------------------------------------------------------
(* The level: map, enemies and inputs of the runs that are explored *)

\* TileMap.TILE_SIZE
TILE_SIZE == 32
\* size of the loaded map, in tiles
MapCols == 10
MapRows == 10

\* a loaded map: world size from the tile grid, the spawn point, the
\* rectangles of the Colliders layer (pixels), the cells <<col, row>> that hold
\* a tile in the "Walls" tile layer, and the rectangles (pixels) of the tile
\* objects of the "Objects" group
LoadTiledMap(spawnX, spawnY, colliders, walls, objects) ==
  [WORLD_W |-> Px(MapCols * TILE_SIZE), WORLD_H |-> Px(MapRows * TILE_SIZE),
   spawnX |-> Px(spawnX), spawnY |-> Px(spawnY),
   tiledColliders |->
     {[x |-> Px(c.x), y |-> Px(c.y), w |-> Px(c.w), h |-> Px(c.h), type |-> c.type] :
        c \in colliders},
   walls |-> walls,
   tileObjects |->
     {[x |-> Px(o.x), y |-> Px(o.y), w |-> Px(o.w), h |-> Px(o.h)] : o \in objects}]

\* a map with no tile in the "Walls" layer and no tile object
LoadMap(spawnX, spawnY, colliders) == LoadTiledMap(spawnX, spawnY, colliders, {}, {})

NoOverride == [hp |-> 0, projectileDamage |-> 0]

\* a wall segment left of the spawn point and a rectangle of another type
FieldColliders ==
  {[x |-> 90, y |-> 140, w |-> 20, h |-> 40, type |-> "solid"],
   [x |-> 150, y |-> 230, w |-> 20, h |-> 20, type |-> "water"]}

\* a building whose lower right corner is near the right edge of the world
CornerColliders ==
  {[x |-> 100, y |-> 100, w |-> 157, h |-> 66, type |-> "solid"]}

\* the levels of the game runs: a loaded map and the enemies main.js has
\* placed on it; enemy 1 is a skeleton, enemy 2 a dragon
Levels ==
  { \* both awake beside the player
    [map |-> LoadMap(160, 160, FieldColliders),
     enemies |-> <<NewEnemy("skeletonWhite", NoOverride, Px(160), Px(210), FALSE),
                   NewEnemy("dragon", NoOverride, Px(220), Px(160), FALSE)>>],
    \* a skeleton built with 1 hp and, beside it, the dragon asleep: both are
    \* in reach of one swing
    [map |-> LoadMap(160, 160, FieldColliders),
     enemies |-> <<NewEnemy("skeletonWhite", [hp |-> 1, projectileDamage |-> 0],
                            Px(160), Px(210), FALSE),
                   NewEnemy("dragon", NoOverride, Px(175), Px(200), TRUE)>>],
    \* the skeleton a few steps away, a dragon whose projectile kills
    [map |-> LoadMap(160, 160, FieldColliders),
     enemies |-> <<NewEnemy("skeletonWhite", NoOverride, Px(160), Px(223), FALSE),
                   NewEnemy("dragon", [hp |-> 0, projectileDamage |-> 15],
                            Px(220), Px(160), FALSE)>>],
    \* the skeleton behind the wall segment, the dragon asleep
    [map |-> LoadMap(160, 160, FieldColliders),
     enemies |-> <<NewEnemy("skeletonWhite", NoOverride, Px(88), Px(160), FALSE),
                   NewEnemy("dragon", NoOverride, Px(220), Px(160), TRUE)>>],
    \* the player beside the corner of the building, both enemies asleep
    [map |-> LoadMap(255, 160, CornerColliders),
     enemies |-> <<NewEnemy("skeletonWhite", NoOverride, Px(100), Px(250), TRUE),
                   NewEnemy("dragon", NoOverride, Px(70), Px(280), TRUE)>>] }

\* the key sets that are down during a tick
KeySets == {{}, {"1"}, {"2"}, {"w"}, {"w", "d"}}

\* the values of game.clockTick (ms)
ClockTicks == {100}

NewCamera(viewW, viewH, worldW, worldH) ==
  [x |-> 0, y |-> 0, viewW |-> viewW, viewH |-> viewH,
   worldW |-> worldW, worldH |-> worldH]

NewHist(E) ==
  [pCalls |-> 0,
   pPre |-> None,
   pArg |-> [amount |-> 0, from |-> [known |-> FALSE, x |-> 0, y |-> 0]],
   hpPre |-> PLAYER_MAX_HP,
   heals |-> 0,
   shots |-> <<>>, prAge |-> <<>>, prTime |-> <<>>, prHits |-> <<>>, prLast |-> 0,
   kPicks |-> <<>>, kLast |-> 0, keysPre |-> 0,
   eDieTime |-> [i \in E |-> 0], eLast |-> 0, uPre |-> None, uShots |-> 0,
   hit |-> [tick |-> 0, by |-> ""],
   eCalls |-> [i \in E |-> 0],
   ePre |-> [i \in E |-> None],
   eAmount |-> [i \in E |-> 0],
   eSwing |-> [i \in E |-> 0],
   pSwing |-> [i \in E |-> 0],
   pSwingKind |-> 0]

\* the gameEngine fields main.js sets at boot; the ObjectiveManager
\* constructor sets storyRead and starts at step 0
NewGame(entities) ==
  [gameOver |-> FALSE, win |-> FALSE, storyModalOpen |-> FALSE,
   storyRead |-> FALSE, keysCollected |-> 0, requiredKeys |-> 3,
   objectives |-> [index |-> 0],
   keys |-> {}, clockTick |-> 0, entities |-> entities]

\* the canvas of the game runs, in pixels
ViewW == 256
ViewH == 192

\* an entity list with the player registered before the enemies
BootEntities_PlayerFirst ==
  <<[tag |-> "player", id |-> 0], [tag |-> "enemy", id |-> 1],
    [tag |-> "enemy", id |-> 2]>>

\* main.js: for (const e of enemies) gameEngine.addEntity(e); then
\* gameEngine.addEntity(player)
BootEntities ==
  <<[tag |-> "enemy", id |-> 1], [tag |-> "enemy", id |-> 2],
    [tag |-> "player", id |-> 0]>>

\* main.js: map loaded, camera, player, enemies placed; entities are added
\* enemies first, then the player
Init ==
  \E lv \in Levels :
    /\ map = lv.map
    /\ camera = NewCamera(Px(ViewW), Px(ViewH), lv.map.WORLD_W, lv.map.WORLD_H)
    /\ player = NewPlayer(lv.map)
    /\ enemies = lv.enemies
    /\ projectiles = <<>>
    /\ hearts = <<>>
    /\ pickups = <<>>
    /\ scrolls = <<>>
    /\ game = NewGame(BootEntities)
    /\ sched = [tick |-> 0, turn |-> 0, count |-> 0]
    /\ hist = NewHist({1, 2})

-----------------------------------------------------------------------------
(* The engine loop: every tick, update() of each entity that is not flagged,
   in list order, then the flagged entities are removed *)

\* the timer and the key handlers have run; the loop starts over the entities
\* that are in the list now
StartTick ==
  /\ sched.turn = 0
  /\ sched.tick < MaxTick
  /\ \E keys \in KeySets, dt \in ClockTicks :
       Commit([NoCalls(World) EXCEPT !.game.keys = keys, !.game.clockTick = dt])
  /\ sched' = [tick |-> sched.tick + 1, turn |-> 1, count |-> Len(game.entities)]

Current == game.entities[sched.turn]

InLoop == sched.turn >= 1 /\ sched.turn <= sched.count

Advance == sched' = [sched EXCEPT !.turn = @ + 1]

\* the world w after an update of the loop, with the tick and the kind of
\* the updated entity logged if the update took hit points from the player
LogHit(w, by) ==
  IF w.player.hp < player.hp
  THEN [w EXCEPT !.hist.hit = [tick |-> sched.tick, by |-> by]]
  ELSE w

UpdateEnemy ==
  /\ InLoop
  /\ Current.tag = "enemy"
  /\ Commit(IF enemies[Current.id].removeFromWorld THEN NoCalls(World)
            ELSE LogHit(CallEnemyUpdate(NoCalls(World), Current.id), "enemy"))
  /\ Advance

UpdatePlayer ==
  /\ InLoop
  /\ Current.tag = "player"
  /\ Commit(Player_update(NoCalls(World)))
  /\ Advance

UpdateProjectile ==
  /\ InLoop
  /\ Current.tag = "enemy_projectile"
  /\ Commit(IF projectiles[Current.id].removeFromWorld THEN NoCalls(World)
            ELSE LogHit(Projectile_update(NoCalls(World), Current.id), "projectile"))
  /\ Advance

Flagged(w, ent) ==
  CASE ent.tag = "enemy" -> w.enemies[ent.id].removeFromWorld
    [] ent.tag = "enemy_projectile" -> w.projectiles[ent.id].removeFromWorld
    [] ent.tag = "pickup_heart" -> w.hearts[ent.id].removeFromWorld
    [] ent.tag = "pickup_key" -> w.pickups[ent.id].removeFromWorld
    [] ent.tag = "pickup_scroll" -> w.scrolls[ent.id].removeFromWorld
    [] OTHER -> FALSE

\* the entities flagged for removal leave the list
RemoveFlagged(w) ==
  [w EXCEPT !.game.entities = SelectSeq(@, LAMBDA ent : ~Flagged(w, ent))]

EndTick ==
  /\ sched.turn = sched.count + 1
  /\ Commit(RemoveFlagged(NoCalls(World)))
  /\ sched' = [sched EXCEPT !.turn = 0]

Next == StartTick \/ UpdateEnemy \/ UpdatePlayer \/ UpdateProjectile \/ EndTick

Spec == Init /\ [][Next]_vars

\* the key sets of a fight: no key, attack 1, attack 2
FightKeySets == {{}, {"1"}, {"2"}}

\* a fight: the skeleton and the dragon awake beside the player
InitFight ==
  /\ Init
  /\ enemies = <<NewEnemy("skeletonWhite", NoOverride, Px(160), Px(210), FALSE),
                 NewEnemy("dragon", NoOverride, Px(220), Px(160), FALSE)>>

FightStartTick ==
  /\ sched.turn = 0
  /\ sched.tick < MaxTick
  /\ \E keys \in FightKeySets, dt \in ClockTicks :
       Commit([NoCalls(World) EXCEPT !.game.keys = keys, !.game.clockTick = dt])
  /\ sched' = [tick |-> sched.tick + 1, turn |-> 1, count |-> Len(game.entities)]

NextFight ==
  FightStartTick \/ UpdateEnemy \/ UpdatePlayer \/ UpdateProjectile \/ EndTick

\* the step the loop takes through a tick: the tick starts, each entity has
\* its turn, the tick ends
Schedule ==
  sched' = IF sched.turn = 0
           THEN [tick |-> sched.tick + 1, turn |-> 1, count |-> Len(game.entities)]
           ELSE IF sched.turn <= sched.count THEN [sched EXCEPT !.turn = @ + 1]
           ELSE [sched EXCEPT !.turn = 0]

\* a tick or a turn is due
Due == sched.turn # 0 \/ sched.tick < MaxTick

\* the loop is driven by requestAnimationFrame: as long as a tick or a turn
\* is due, it is taken
SpecFight == InitFight /\ [][NextFight]_vars /\ WF_sched(Due /\ Schedule)
-----------------------------------------------------------------------------
(* The level as main.js wires it: sleeping guards, the story scroll, three
   keys, the win checker, the HUD and the tile-map draw hook, in this order
   after the player *)

\* the most ticks of a level run
MaxLevelTick == 9

\* the key sets that are down during a tick of a level run
LevelKeySets == {{}, {"d"}, {"e"}, {"2"}}

\* the options main.js gives the keys: the guards go in under guardEnemies
KeyOptions(guards) ==
  [size |-> 18, radius |-> 20, guardEnemies |-> guards, wakeRadius |-> 220]

\* guardsKey1, guardsKey2, guardsKey3 of main.js, one guard each
KeyGuards == <<{1}, {2}, {3}>>

InitLevel ==
  /\ map = LoadMap(60, 160, {})
  /\ camera = NewCamera(Px(ViewW), Px(ViewH), map.WORLD_W, map.WORLD_H)
  /\ player = NewPlayer(map)
  /\ enemies = <<NewEnemy("skeletonWhite", NoOverride, Px(100), Px(130), TRUE),
                 NewEnemy("zombie", NoOverride, Px(290), Px(190), TRUE),
                 NewEnemy("dragon", NoOverride, Px(40), Px(290), TRUE)>>
  /\ projectiles = <<>>
  /\ hearts = <<>>
  /\ pickups = <<NewKey(Px(86), Px(160), KeyOptions(KeyGuards[1])),
                 NewKey(Px(300), Px(160), KeyOptions(KeyGuards[2])),
                 NewKey(Px(60), Px(300), KeyOptions(KeyGuards[3]))>>
  /\ scrolls = <<NewScroll(Px(60), Px(200), [radius |-> 80])>>
  /\ game = NewGame(<<[tag |-> "enemy", id |-> 1], [tag |-> "enemy", id |-> 2],
                      [tag |-> "enemy", id |-> 3], [tag |-> "player", id |-> 0],
                      [tag |-> "pickup_scroll", id |-> 1],
                      [tag |-> "pickup_key", id |-> 1], [tag |-> "pickup_key", id |-> 2],
                      [tag |-> "pickup_key", id |-> 3],
                      [tag |-> "win_checker", id |-> 0], [tag |-> "hud", id |-> 0],
                      [tag |-> "tile_map", id |-> 0]>>)
  /\ sched = [tick |-> 0, turn |-> 0, count |-> 0]
  /\ hist = [NewHist({1, 2, 3}) EXCEPT !.kPicks = <<0, 0, 0>>]

\* update() of the entity ent
UpdateOf(w, ent) ==
  CASE ent.tag = "enemy" -> CallEnemyUpdate(w, ent.id)
    [] ent.tag = "player" -> Player_update(w)
    [] ent.tag = "enemy_projectile" -> Projectile_update(w, ent.id)
    [] ent.tag = "pickup_scroll" -> Scroll_update(w, ent.id)
    [] ent.tag = "pickup_key" -> Key_update(w, ent.id)
    [] ent.tag = "win_checker" -> WinChecker_update(w)
    [] ent.tag = "hud" -> HUD_update(w)
    [] OTHER -> w

LevelStartTick ==
  /\ sched.turn = 0
  /\ sched.tick < MaxLevelTick
  /\ \E keys \in LevelKeySets, dt \in ClockTicks :
       Commit([NoCalls(World) EXCEPT !.game.keys = keys, !.game.clockTick = dt])
  /\ sched' = [tick |-> sched.tick + 1, turn |-> 1, count |-> Len(game.entities)]

LevelUpdate ==
  /\ InLoop
  /\ Commit(IF Flagged(World, Current) THEN NoCalls(World)
            ELSE UpdateOf(NoCalls(World), Current))
  /\ Advance

\* a click on the close button of the story overlay, between two ticks
CloseStory ==
  /\ sched.turn = 0
  /\ game.storyModalOpen
  /\ Commit(closeStory(NoCalls(World)))
  /\ UNCHANGED sched

NextLevel == LevelStartTick \/ LevelUpdate \/ CloseStory \/ EndTick

SpecLevel == InitLevel /\ [][NextLevel]_vars
-----------------------------------------------------------------------------
(* The player alone: any caller of Player.takeDamage, Player.update and
   HeartPickup.update, in any order *)

\* the amounts of the takeDamage calls
Amounts == {1, 15, 20}

\* the sources of the takeDamage calls: unknown (null), a point up and left
\* of the spawn point, the spawn point itself
Sources ==
  {[known |-> FALSE, x |-> 0, y |-> 0],
   [known |-> TRUE, x |-> Px(130), y |-> Px(120)],
   [known |-> TRUE, x |-> Px(160), y |-> Px(160)]}

\* new HeartPickup(...), default radius 26
NewHeart(x, y) == [x |-> x, y |-> y, pickupRadius |-> Px(26), removeFromWorld |-> FALSE]

InitPlayer ==
  /\ map = LoadMap(160, 160, FieldColliders)
  /\ camera = NewCamera(Px(ViewW), Px(ViewH), map.WORLD_W, map.WORLD_H)
  /\ player = NewPlayer(map)
  /\ enemies = <<>>
  /\ projectiles = <<>>
  /\ hearts = <<NewHeart(Px(170), Px(160)), NewHeart(Px(160), Px(150))>>
  /\ pickups = <<>>
  /\ scrolls = <<>>
  /\ game = NewGame(<<[tag |-> "player", id |-> 0], [tag |-> "pickup_heart", id |-> 1],
                      [tag |-> "pickup_heart", id |-> 2]>>)
  /\ sched = [tick |-> 0, turn |-> 0, count |-> 0]
  /\ hist = NewHist({})

Called == sched' = [sched EXCEPT !.tick = @ + 1]

CallTakeDamage ==
  /\ sched.tick < MaxCalls
  /\ \E amount \in Amounts, from \in Sources :
       Commit(CallPlayerTakeDamage(NoCalls(World), amount, from))
  /\ Called

CallPlayerUpdate ==
  /\ sched.tick < MaxCalls
  /\ \E keys \in KeySets, dt \in ClockTicks :
       Commit(Player_update([NoCalls(World) EXCEPT !.game.keys = keys,
                                                   !.game.clockTick = dt]))
  /\ Called

CallHeartUpdate ==
  /\ sched.tick < MaxCalls
  /\ \E h \in DOMAIN hearts :
       /\ ~hearts[h].removeFromWorld
       /\ Commit(Heart_update(NoCalls(World), h))
  /\ Called

NextPlayer == CallTakeDamage \/ CallPlayerUpdate \/ CallHeartUpdate

SpecPlayer == InitPlayer /\ [][NextPlayer]_vars

-----------------------------------------------------------------------------
(* The camera alone: any sequence of follow calls, for several view and
   world sizes *)

\* view and world sizes in pixels: world larger, equal, and smaller than the view
CameraSizes ==
  {[viewW |-> 256, viewH |-> 192, worldW |-> 640, worldH |-> 480],
   [viewW |-> 255, viewH |-> 191, worldW |-> 320, worldH |-> 192],
   [viewW |-> 256, viewH |-> 192, worldW |-> 256, worldH |-> 192],
   [viewW |-> 256, viewH |-> 192, worldW |-> 200, worldH |-> 320]}

\* the follow targets on one axis, in model units
Targets ==
  {Px(0 - 50), 0, Px(127) + (U \div 2), Px(128) + 3, Px(160), Px(200), Px(320),
   Px(400), Px(700)}

InitCamera ==
  /\ \E z \in CameraSizes :
       camera = NewCamera(Px(z.viewW), Px(z.viewH), Px(z.worldW), Px(z.worldH))
  /\ map = LoadMap(160, 160, {})
  /\ player = NewPlayer(map)
  /\ enemies = <<>>
  /\ projectiles = <<>>
  /\ hearts = <<>>
  /\ pickups = <<>>
  /\ scrolls = <<>>
  /\ game = NewGame(<<>>)
  /\ sched = [tick |-> 0, turn |-> 0, count |-> 0]
  /\ hist = NewHist({})

CallFollow ==
  /\ sched.tick < MaxFollow
  /\ \E tx \in Targets, ty \in Targets : camera' = Camera_follow(camera, tx, ty)
  /\ Called
  /\ UNCHANGED <<map, player, enemies, projectiles, hearts, pickups, scrolls, game, hist>>

NextCamera == CallFollow

SpecCamera == InitCamera /\ [][NextCamera]_vars
-----------------------------------------------------------------------------
(* The objectives alone: any change of the game flags and of the enemy list,
   and ObjectiveManager.update, in any order *)

\* the largest value given to game.keysCollected
MaxKeys == 4

InitObjectives ==
  /\ map = LoadMap(160, 160, {})
  /\ camera = NewCamera(Px(ViewW), Px(ViewH), map.WORLD_W, map.WORLD_H)
  /\ player = NewPlayer(map)
  /\ enemies = <<NewEnemy("skeletonWhite", NoOverride, Px(100), Px(250), TRUE),
                 NewEnemy("dragon", NoOverride, Px(70), Px(280), TRUE)>>
  /\ projectiles = <<>>
  /\ hearts = <<>>
  /\ pickups = <<>>
  /\ scrolls = <<>>
  /\ game = NewGame(<<[tag |-> "enemy", id |-> 1], [tag |-> "enemy", id |-> 2],
                      [tag |-> "player", id |-> 0]>>)
  /\ sched = [tick |-> 0, turn |-> 0, count |-> 0]
  /\ hist = [objCalls |-> 0, indexPre |-> 0]

\* the flags take any values; enemy 1 is in the entity list or not, enemy 2 is
\* flagged for removal or not
ChangeFlags ==
  /\ \E storyRead \in BOOLEAN, n \in 0..MaxKeys, win \in BOOLEAN, over \in BOOLEAN,
        in1 \in BOOLEAN, flag2 \in BOOLEAN :
       /\ game' = [game EXCEPT
                     !.storyRead = storyRead, !.keysCollected = n,
                     !.win = win, !.gameOver = over,
                     !.entities =
                       (IF in1 THEN <<[tag |-> "enemy", id |-> 1]>> ELSE <<>>)
                       \o <<[tag |-> "enemy", id |-> 2], [tag |-> "player", id |-> 0]>>]
       /\ enemies' = [enemies EXCEPT ![2].removeFromWorld = flag2]
  /\ hist' = [objCalls |-> 0, indexPre |-> game.objectives.index]
  /\ UNCHANGED <<map, camera, player, projectiles, hearts, pickups, scrolls, sched>>

CallObjectivesUpdate ==
  /\ Commit([Objectives_update(World) EXCEPT
               !.hist = [objCalls |-> 1, indexPre |-> game.objectives.index]])
  /\ UNCHANGED sched

NextObjectives == ChangeFlags \/ CallObjectivesUpdate

SpecObjectives == InitObjectives /\ [][NextObjectives]_vars

-----------------------------------------------------------------------------
(* One projectile in flight: EnemyProjectile.update ticks until the projectile
   is flagged, the engine then stops updating it *)

\* the most updates one projectile gets
MaxShotTicks == 25

\* the lifetimes (ms): one tick, three ticks, half the dragon's, the
\* constructor's default (2.2 s) and the dragon's (2.4 s)
ShotLives == {100, 300, 1200, 2200, 2400}

\* where the player stands, the colliders, and the projectile's start,
\* direction (x 1000) and speed (tenths of a pixel per update)
Ranges ==
  { \* free flight along the top of the map, left and right
    [spawnX |-> 160, spawnY |-> 160, colliders |-> FieldColliders,
     x |-> 40, y |-> 40, vx |-> 1000, vy |-> 0, speed |-> 60],
    [spawnX |-> 160, spawnY |-> 160, colliders |-> FieldColliders,
     x |-> 300, y |-> 50, vx |-> -1000, vy |-> 0, speed |-> 30],
    \* free flight on a diagonal
    [spawnX |-> 160, spawnY |-> 160, colliders |-> FieldColliders,
     x |-> 20, y |-> 20, vx |-> 600, vy |-> 800, speed |-> 30],
    \* toward the player from the right
    [spawnX |-> 160, spawnY |-> 160, colliders |-> FieldColliders,
     x |-> 195, y |-> 160, vx |-> -1000, vy |-> 0, speed |-> 30],
    \* away from the player into the wall segment
    [spawnX |-> 160, spawnY |-> 160, colliders |-> FieldColliders,
     x |-> 130, y |-> 160, vx |-> -1000, vy |-> 0, speed |-> 60],
    \* out of the world on the left
    [spawnX |-> 160, spawnY |-> 160, colliders |-> FieldColliders,
     x |-> 10, y |-> 40, vx |-> -1000, vy |-> 0, speed |-> 60],
    \* into the building, beside the player
    [spawnX |-> 255, spawnY |-> 160, colliders |-> CornerColliders,
     x |-> 250, y |-> 170, vx |-> 0, vy |-> -1000, speed |-> 60] }

InitProjectile ==
  \E r \in Ranges, life \in ShotLives :
    LET pr == NewProjectile(Px(r.x), Px(r.y), r.vx, r.vy, Tenths(r.speed), 1, life)
    IN /\ map = LoadMap(r.spawnX, r.spawnY, r.colliders)
       /\ camera = NewCamera(Px(ViewW), Px(ViewH), map.WORLD_W, map.WORLD_H)
       /\ player = NewPlayer(map)
       /\ enemies = <<>>
       /\ projectiles = <<pr>>
       /\ hearts = <<>>
       /\ pickups = <<>>
       /\ scrolls = <<>>
       /\ game = NewGame(<<[tag |-> "player", id |-> 0],
                           [tag |-> "enemy_projectile", id |-> 1]>>)
       /\ sched = [tick |-> 0, turn |-> 0, count |-> 0]
       /\ hist = LogNewProjectile(NewHist({}), pr)

CallProjectileUpdate ==
  /\ sched.tick < MaxShotTicks
  /\ ~projectiles[1].removeFromWorld
  /\ \E dt \in ClockTicks :
       Commit(Projectile_update([NoCalls(World) EXCEPT !.game.clockTick = dt], 1))
  /\ Called

NextProjectile == CallProjectileUpdate

SpecProjectile == InitProjectile /\ [][NextProjectile]_vars

-----------------------------------------------------------------------------
(* The win checker alone: the events that change what it reads (a key is
   collected, an enemy's death clip ends, the story is read, the player dies),
   the win checker and ObjectiveManager.update, in any order *)

\* a level whose two enemies are awake
InitWin ==
  /\ map = LoadMap(160, 160, {})
  /\ camera = NewCamera(Px(ViewW), Px(ViewH), map.WORLD_W, map.WORLD_H)
  /\ player = NewPlayer(map)
  /\ enemies = <<NewEnemy("skeletonWhite", NoOverride, Px(100), Px(250), FALSE),
                 NewEnemy("dragon", NoOverride, Px(70), Px(280), FALSE)>>
  /\ projectiles = <<>>
  /\ hearts = <<>>
  /\ pickups = <<>>
  /\ scrolls = <<>>
  /\ game = NewGame(<<[tag |-> "enemy", id |-> 1], [tag |-> "enemy", id |-> 2],
                      [tag |-> "player", id |-> 0]>>)
  /\ sched = [tick |-> 0, turn |-> 0, count |-> 0]
  /\ hist = [objCalls |-> 0, indexPre |-> 0]

\* ScrollStoryPickup.update, which returns at once when the game is over or
\* won, has set game.storyRead
StoryRead ==
  /\ ~game.storyRead
  /\ ~game.gameOver /\ ~game.win
  /\ game' = [game EXCEPT !.storyRead = TRUE]
  /\ UNCHANGED <<map, camera, player, enemies, projectiles, hearts, pickups, scrolls,
                 sched, hist>>

\* KeyPickup.update has counted a key
KeyCollected ==
  /\ game.keysCollected < MaxKeys
  /\ game' = [game EXCEPT !.keysCollected = @ + 1]
  /\ UNCHANGED <<map, camera, player, enemies, projectiles, hearts, pickups, scrolls,
                 sched, hist>>

\* the death clip of an enemy has ended: Enemy.update has flagged it
EnemyGone ==
  /\ \E i \in DOMAIN enemies :
       /\ ~enemies[i].removeFromWorld
       /\ enemies' = [enemies EXCEPT ![i].dead = TRUE, ![i].state = "die",
                                     ![i].removeFromWorld = TRUE]
  /\ UNCHANGED <<map, camera, player, projectiles, hearts, pickups, scrolls, game,
                 sched, hist>>

\* Player.die has called game.triggerGameOver
PlayerDied ==
  /\ ~game.gameOver
  /\ Commit(Player_die(World))
  /\ UNCHANGED sched

CallWinChecker ==
  /\ Commit(WinChecker_update(World))
  /\ UNCHANGED sched

NextWin ==
  \/ StoryRead \/ KeyCollected \/ EnemyGone \/ PlayerDied
  \/ CallWinChecker \/ CallObjectivesUpdate

SpecWin == InitWin /\ [][NextWin]_vars

-----------------------------------------------------------------------------
(* The map alone: TileMap.isBlockedAtWorld asked at any point of a grid that
   reaches over the edges of the world *)

\* a wall segment with its collider, a wall tile and a rock (tile object) that
\* have none, a pond of type "water"
VillageMap ==
  LoadTiledMap(160, 160,
    {[x |-> 64, y |-> 64, w |-> 32, h |-> 64, type |-> "solid"],
     [x |-> 192, y |-> 64, w |-> 64, h |-> 32, type |-> "water"]},
    {<<2, 2>>, <<2, 3>>, <<4, 6>>},
    {[x |-> 224, y |-> 224, w |-> 32, h |-> 32]})

\* colliders only: a solid one and one of type "trigger" that overlap
YardMap ==
  LoadTiledMap(160, 160,
    {[x |-> 32, y |-> 32, w |-> 64, h |-> 64, type |-> "solid"],
     [x |-> 64, y |-> 64, w |-> 96, h |-> 96, type |-> "trigger"]},
    {}, {})

\* the coordinates asked (pixels): every 16th from -16 to the far edge and one
\* beyond, and the last one inside the world
QueryCoords ==
  {16 * n - 16 : n \in 0..(2 * MapCols + 2)} \cup {MapCols * TILE_SIZE - 1}

InitMap ==
  /\ map \in {VillageMap, YardMap}
  /\ camera = NewCamera(Px(ViewW), Px(ViewH), map.WORLD_W, map.WORLD_H)
  /\ player = NewPlayer(map)
  /\ enemies = <<>>
  /\ projectiles = <<>>
  /\ hearts = <<>>
  /\ pickups = <<>>
  /\ scrolls = <<>>
  /\ game = NewGame(<<>>)
  /\ sched = [tick |-> 0, turn |-> 0, count |-> 0]
  /\ hist = [asked |-> FALSE, x |-> 0, y |-> 0, blocked |-> FALSE]

CallIsBlockedAtWorld ==
  /\ \E qx \in QueryCoords, qy \in QueryCoords :
       hist' = [asked |-> TRUE, x |-> Px(qx), y |-> Px(qy),
                blocked |-> IsBlockedAtWorld(map, Px(qx), Px(qy))]
  /\ UNCHANGED <<map, camera, player, enemies, projectiles, hearts, pickups, scrolls,
                 game, sched>>

NextMap == CallIsBlockedAtWorld

SpecMap == InitMap /\ [][NextMap]_vars

-----------------------------------------------------------------------------
(* One enemy: takeDamage by any caller, update while the enemy is not flagged,
   and writes of its asleep field, in any order *)

\* the most calls on the enemy
MaxEnemyCalls == 10

\* the amounts of the player's two attacks
EnemyAmounts == {1, 2}

\* the enemies: each type with its own hp and with the hp of the spawn plan
\* overridden to 2, awake or asleep, a few steps from the player
InitEnemy ==
  \E type \in {"skeletonWhite", "zombie", "dragon"}, hp \in {0, 2}, asleep \in BOOLEAN :
    /\ map = LoadMap(160, 160, FieldColliders)
    /\ camera = NewCamera(Px(ViewW), Px(ViewH), map.WORLD_W, map.WORLD_H)
    /\ player = NewPlayer(map)
    /\ enemies = <<NewEnemy(type, [hp |-> hp, projectileDamage |-> 0],
                            Px(160), Px(223), asleep)>>
    /\ projectiles = <<>>
    /\ hearts = <<>>
    /\ pickups = <<>>
    /\ scrolls = <<>>
    /\ game = NewGame(<<[tag |-> "enemy", id |-> 1], [tag |-> "player", id |-> 0]>>)
    /\ sched = [tick |-> 0, turn |-> 0, count |-> 0]
    /\ hist = NewHist({1})

EnemyHit ==
  /\ sched.tick < MaxEnemyCalls
  /\ \E amount \in EnemyAmounts :
       Commit(CallEnemyTakeDamage(NoCalls(World), 1, amount))
  /\ Called

EnemyTick ==
  /\ sched.tick < MaxEnemyCalls
  /\ ~enemies[1].removeFromWorld
  /\ \E dt \in ClockTicks :
       Commit(CallEnemyUpdate([NoCalls(World) EXCEPT !.game.clockTick = dt], 1))
  /\ Called

\* a write of the asleep field: main.js puts a guard to sleep, a key wakes it
EnemySetAsleep ==
  /\ sched.tick < MaxEnemyCalls
  /\ \E b \in BOOLEAN :
       /\ b # enemies[1].asleep
       /\ Commit([NoCalls(World) EXCEPT !.enemies[1].asleep = b])
  /\ Called

NextEnemy == EnemyHit \/ EnemyTick \/ EnemySetAsleep

SpecEnemy == InitEnemy /\ [][NextEnemy]_vars

-----------------------------------------------------------------------------
(* Enemy creation: EnemyCreator.create and the Enemy constructor on good and
   on faulty definitions, then takeDamage and update of what they made *)

\* the most calls on a created enemy
MaxCreateCalls == 6

\* the clips Enemy.update reads frames and ft of
Clips == {"attack", "hurt", "die"}

\* the type names handed to EnemyCreator.create; "ghost" is not in TYPES
CreateTypes == {"skeletonWhite", "zombie", "dragon", "ghost"}

\* the hp the constructor falls back to: S.hp ?? 3
DEFAULT_HP == 3

\* the definition buildDef returns for a type of TYPES, as far as creation and
\* update read it: the anim set with every clip, the stats with hp
BuiltOpts(type, over) ==
  [type |-> type, hasAnim |-> TRUE, clips |-> Clips,
   hasHp |-> TRUE, hp |-> buildDef(type, over).hp]

\* definitions handed to the constructor: a built one, or one with the anim
\* set, one clip, every clip or the hp stat left out
DirectOpts ==
  {[BuiltOpts(type, NoOverride) EXCEPT !.hasAnim = a, !.clips = c, !.hasHp = h] :
     type \in DOMAIN TYPES, a \in BOOLEAN, h \in BOOLEAN,
     c \in {Clips, Clips \ {"hurt"}, Clips \ {"attack"}, Clips \ {"die"}, {}}}

\* new Enemy(..., opts), placed at (x, y): throws without an anim set, takes
\* the default for a stat that is not there, is awake
Enemy_constructor(opts, x, y) ==
  IF ~opts.hasAnim
  THEN [thrown |-> "Enemy missing anim set", enemies |-> <<>>]
  ELSE [thrown |-> "",
        enemies |-> <<[NewEnemy(opts.type, NoOverride, x, y, FALSE) EXCEPT
                         !.hp = IF opts.hasHp THEN opts.hp ELSE DEFAULT_HP,
                         !.startHp = IF opts.hasHp THEN opts.hp ELSE DEFAULT_HP]>>]

\* EnemyCreator.create: buildDef throws on a type that is not in TYPES, else
\* the constructor gets the built definition
EnemyCreator_create(type, over, x, y) ==
  IF type \notin DOMAIN TYPES
  THEN [thrown |-> "Unknown enemy type", enemies |-> <<>>]
  ELSE Enemy_constructor(BuiltOpts(type, over), x, y)

\* the clip whose frames and ft the next Enemy.update reads, "" if none
UpdateReads(e) ==
  IF EnemyAsleep(e) \/ e.spawnLocked \/ e.state = "spawn" THEN ""
  ELSE IF e.dead THEN "die"
  ELSE IF e.hurtLocked THEN "hurt"
  ELSE IF e.attackLocked THEN "attack"
  ELSE ""

\* the log of a creation run
NewCreateHist ==
  NewHist({1}) @@
  [made |-> FALSE, thrown |-> "", later |-> "",
   opts |-> [BuiltOpts("zombie", NoOverride) EXCEPT !.type = ""]]

InitCreate ==
  /\ map = LoadMap(160, 160, FieldColliders)
  /\ camera = NewCamera(Px(ViewW), Px(ViewH), map.WORLD_W, map.WORLD_H)
  /\ player = NewPlayer(map)
  /\ enemies = <<>>
  /\ projectiles = <<>>
  /\ hearts = <<>>
  /\ pickups = <<>>
  /\ scrolls = <<>>
  /\ game = NewGame(<<[tag |-> "enemy", id |-> 1], [tag |-> "player", id |-> 0]>>)
  /\ sched = [tick |-> 0, turn |-> 0, count |-> 0]
  /\ hist = NewCreateHist

\* the outcome of a creation, logged with the definition it was given
Created(opts, res) ==
  Commit([NoCalls(World) EXCEPT !.enemies = res.enemies,
                                !.hist.made = TRUE,
                                !.hist.thrown = res.thrown,
                                !.hist.opts = opts])

CallCreate ==
  /\ ~hist.made
  /\ \E type \in CreateTypes, hp \in {0, 2} :
       LET over == [hp |-> hp, projectileDamage |-> 0] IN
       Created(IF type \in DOMAIN TYPES THEN BuiltOpts(type, over)
               ELSE [BuiltOpts("zombie", over) EXCEPT !.type = type, !.hasAnim = FALSE,
                                                      !.clips = {}, !.hasHp = FALSE],
               EnemyCreator_create(type, over, Px(160), Px(223)))
  /\ Called

CallConstructor ==
  /\ ~hist.made
  /\ \E opts \in DirectOpts :
       Created(opts, Enemy_constructor(opts, Px(160), Px(223)))
  /\ Called

\* the created enemy is in the world and no call on it has thrown
CreatedLive ==
  /\ hist.made
  /\ hist.thrown = "" /\ hist.later = ""
  /\ sched.tick < MaxCreateCalls

CreatedHit ==
  /\ CreatedLive
  /\ \E amount \in EnemyAmounts :
       Commit(CallEnemyTakeDamage(NoCalls(World), 1, amount))
  /\ Called

\* Enemy.update of the created enemy: reading frames of a clip that is not in
\* the anim set throws a TypeError, after animElapsed has advanced
CreatedTick ==
  /\ CreatedLive
  /\ ~enemies[1].removeFromWorld
  /\ \E dt \in ClockTicks :
       LET w == [NoCalls(World) EXCEPT !.game.clockTick = dt] IN
       IF UpdateReads(enemies[1]) \notin hist.opts.clips \cup {""}
       THEN Commit([w EXCEPT !.enemies[1].animElapsed = @ + dt,
                             !.enemies[1].attackCooldown = Max(0, @ - dt),
                             !.hist.later = "TypeError in update"])
       ELSE Commit(CallEnemyUpdate(w, 1))
  /\ Called

NextCreate == CallCreate \/ CallConstructor \/ CreatedHit \/ CreatedTick

SpecCreate == InitCreate /\ [][NextCreate]_vars

-----------------------------------------------------------------------------
(* Knockback: the player is hit or not at the start of a run and is then
   updated tick after tick, idle, walking or attacking, beside a wall *)

\* the most calls of a knockback run
MaxKnockTick == 14

\* a wall a few steps left of the spawn point
KnockColliders == {[x |-> 120, y |-> 140, w |-> 20, h |-> 60, type |-> "solid"]}

\* the sources of the hits: right of the player, below and right
KnockSources ==
  {[known |-> TRUE, x |-> Px(200), y |-> Px(160)],
   [known |-> TRUE, x |-> Px(190), y |-> Px(190)]}

\* the key sets of a knockback run: none, walk right, attack 1, attack 2
KnockKeySets == {{}, {"d"}, {"1"}, {"2"}}

InitKnock ==
  /\ map = LoadMap(160, 160, KnockColliders)
  /\ camera = NewCamera(Px(ViewW), Px(ViewH), map.WORLD_W, map.WORLD_H)
  /\ player = NewPlayer(map)
  /\ enemies = <<>>
  /\ projectiles = <<>>
  /\ hearts = <<>>
  /\ pickups = <<>>
  /\ scrolls = <<>>
  /\ game = NewGame(<<[tag |-> "player", id |-> 0]>>)
  /\ sched = [tick |-> 0, turn |-> 0, count |-> 0]
  /\ hist = NewHist({})

KnockHit ==
  /\ sched.tick = 0
  /\ \E from \in KnockSources :
       Commit(CallPlayerTakeDamage(NoCalls(World), 1, from))
  /\ Called

KnockTick ==
  /\ sched.tick < MaxKnockTick
  /\ \E keys \in KnockKeySets, dt \in ClockTicks :
       Commit(Player_update([NoCalls(World) EXCEPT !.game.keys = keys,
                                                   !.game.clockTick = dt]))
  /\ Called

NextKnock == KnockHit \/ KnockTick

\* the loop keeps calling update: as long as a call is due, one is made
SpecKnock ==
  InitKnock /\ [][NextKnock]_vars /\ WF_sched(sched.tick < MaxKnockTick /\ Called)

-----------------------------------------------------------------------------
(* The dragon's shots: an awake dragon in range of the player, updated with
   short and long ticks and hit now and then *)

\* the most calls of a shooting run
MaxShotCalls == 21

\* the tick times of a shooting run, in ms: two ticks of 50 fall into one
\* frame of the attack clip
ShotClockTicks == {50, 100}

InitShot ==
  /\ InitEnemy
  /\ enemies[1].type = "dragon"
  /\ enemies[1].hp = TYPES["dragon"].stats.hp
  /\ ~enemies[1].asleep

ShotTick ==
  /\ sched.tick < MaxShotCalls
  /\ \E dt \in ShotClockTicks :
       Commit(CallEnemyUpdate([NoCalls(World) EXCEPT !.game.clockTick = dt], 1))
  /\ Called

ShotHit ==
  /\ sched.tick < MaxShotCalls
  /\ Commit(CallEnemyTakeDamage(NoCalls(World), 1, 1))
  /\ Called

NextShot == ShotTick \/ ShotHit

SpecShot == InitShot /\ [][NextShot]_vars

-----------------------------------------------------------------------------
(* Properties *)

\* the last step called Player.takeDamage and the call passed both guards
DamageLanded ==
  /\ hist.pCalls > 0
  /\ ~PlayerDeadGuard(hist.pPre)
  /\ ~PlayerInvulnGuard(hist.pPre)

\* C1: the player's hp is always within [0, maxHp]; a step lowers it only if
\* the step called Player.takeDamage, and raises it only if the step healed
\* through a heart, whose heal stops at maxHp.
C1_PlayerHpBounded ==
  /\ 0 <= player.hp
  /\ player.hp <= player.maxHp
  /\ player.hp < hist.hpPre => hist.pCalls > 0
  /\ player.hp > hist.hpPre =>
       hist.heals > 0 /\ player.hp = Min(player.maxHp, hist.hpPre + hist.heals)

\* C1 happens: a hit larger than the hp that was left has landed, and hp is 0
C1_Witness ==
  /\ DamageLanded
  /\ hist.pArg.amount > hist.pPre.hp
  /\ player.hp = 0

\* C2: every enemy's hp is always within [0, the hp it was built with].
C2_EnemyHpBounded ==
  \A i \in DOMAIN enemies :
    0 <= enemies[i].hp /\ enemies[i].hp <= enemies[i].startHp

\* C3: a takeDamage call on a player that has died, or on an enemy whose dead
\* flag is set, changes nothing: the object is as the call found it, and the
\* game-over flag stays as it is.
C3_DeadIgnoresDamage ==
  /\ (hist.pCalls > 0 /\ hist.pPre.isDead) => player = hist.pPre /\ game.gameOver
  /\ \A i \in DOMAIN enemies :
       (hist.eCalls[i] > 0 /\ hist.ePre[i].dead) => enemies[i] = hist.ePre[i]

\* C3 happens: the dead player has been hit again
C3_Witness ==
  /\ hist.pCalls > 0
  /\ hist.pPre.isDead
  /\ hist.pPre.hp = 0
  /\ hist.pArg.amount > 0

\* C4: a takeDamage call on a living player whose hurtInvuln is above 0 leaves
\* hp, hurtInvuln, flashTimer, the knock velocity, the attack flags and isDead
\* as they were.
C4_IFramesSuppressDamage ==
  (hist.pCalls > 0 /\ hist.pPre.hurtInvuln > 0) =>
    /\ player.hp = hist.pPre.hp
    /\ player.hurtInvuln = hist.pPre.hurtInvuln
    /\ player.flashTimer = hist.pPre.flashTimer
    /\ player.knockVX = hist.pPre.knockVX
    /\ player.knockVY = hist.pPre.knockVY
    /\ player.attacking = hist.pPre.attacking
    /\ player.attacking2 = hist.pPre.attacking2
    /\ player.isDead = hist.pPre.isDead

\* C4 happens: a living player in its i-frames, in the middle of a swing, has
\* been hit from a known source by more than the hp it has left
C4_Witness ==
  /\ hist.pCalls > 0
  /\ ~hist.pPre.isDead
  /\ hist.pPre.hurtInvuln > 0
  /\ hist.pPre.hurtInvuln < IFRAMES
  /\ hist.pPre.attacking
  /\ hist.pArg.from.known
  /\ hist.pArg.amount >= hist.pPre.hp

\* the frame of the clip that shows elapsed ms into it
FrameAt(elapsed, ft) == elapsed \div ft

\* C5: between two startAttack calls of an enemy, the enemy calls
\* player.takeDamage at most once, although its hit window (attack frames 3
\* to 5) is open during several updates.
C5_OneHitPerEnemySwing ==
  \A i \in DOMAIN enemies : hist.eSwing[i] <= 1

\* C5 happens: an enemy that has hit in this swing is updated again with the
\* window still open and the player still in reach
C5_Witness ==
  \E i \in DOMAIN enemies :
    LET e == enemies[i] IN
    /\ hist.eSwing[i] = 1
    /\ e.attackLocked
    /\ e.attackDidHit
    /\ hist.pCalls = 0
    /\ sched.turn >= 2
    /\ game.entities[sched.turn - 1] = [tag |-> "enemy", id |-> i]
    /\ FrameAt(e.animElapsed, TYPES[e.type].anim.attack.ft) \in 4..5
    /\ isPlayerInAttackRadius(e, player)

\* the takeDamage calls the player has made on the enemies of s since its
\* swing began
RECURSIVE SwingCalls(_)
SwingCalls(s) ==
  IF s = {} THEN 0
  ELSE LET i == CHOOSE j \in s : TRUE IN hist.pSwing[i] + SwingCalls(s \ {i})

\* C6: in one swing of attack 1 the player calls takeDamage at most once in
\* total; in one swing of attack 2 it calls takeDamage at most once on each
\* enemy.
C6_OneHitPerPlayerSwing ==
  /\ \A i \in DOMAIN enemies : hist.pSwing[i] <= 1
  /\ hist.pSwingKind = 1 => SwingCalls(DOMAIN enemies) <= 1

\* C6 happens: a swing of attack 2 that hit both enemies has run to its end,
\* through a later update with the window open, without being cancelled
C6_Witness ==
  /\ hist.pSwingKind = 2
  /\ \A i \in DOMAIN enemies : hist.pSwing[i] = 1
  /\ \A i \in DOMAIN enemies : hist.eCalls[i] = 0
  /\ ~player.attacking2
  /\ player.hurtInvuln = 0
  /\ player.attack2Cooldown > 0
  /\ sched.turn >= 2
  /\ game.entities[sched.turn - 1].tag = "player"

\* C7: a takeDamage call that passes both guards sets hp to the old hp minus
\* the amount, not below 0; sets hurtInvuln and flashTimer to IFRAMES, which
\* is above 0; ends attack 1 and attack 2; and, when the source is known and
\* not the player's own position, sets a knock velocity of length KNOCK that
\* points from the source to the player. With an unknown source the knock
\* velocity stays as it was.
C7_DamageEffect ==
  DamageLanded =>
    LET pre == hist.pPre
        a == hist.pArg
        dx == pre.x - a.from.x
        dy == pre.y - a.from.y
        vx == player.knockVX
        vy == player.knockVY
    IN /\ player.hp = Max(0, pre.hp - a.amount)
       /\ player.hurtInvuln = IFRAMES
       /\ player.flashTimer = IFRAMES
       /\ IFRAMES > 0
       /\ ~player.attacking
       /\ ~player.attacking2
       /\ (a.from.known /\ (dx # 0 \/ dy # 0)) =>
            /\ vx # 0 \/ vy # 0
            /\ vx * dx + vy * dy > 0
            /\ Abs(vx * dy - vy * dx) <= Abs(dx) + Abs(dy)
            /\ (Px(KNOCK) - 2) * (Px(KNOCK) - 2) <= vx * vx + vy * vy
            /\ vx * vx + vy * vy <= (Px(KNOCK) + 1) * (Px(KNOCK) + 1)
       /\ ~a.from.known => vx = pre.knockVX /\ vy = pre.knockVY

\* C7 happens: a hit from a known source, off both axes of the player, has
\* landed in the middle of a swing and left the player alive
C7_Witness ==
  /\ DamageLanded
  /\ hist.pPre.attacking
  /\ hist.pArg.from.known
  /\ hist.pArg.from.x # hist.pPre.x
  /\ hist.pArg.from.y # hist.pPre.y
  /\ player.hp = hist.pPre.hp - 1
  /\ ~player.isDead

\* C8: the player always stands where canStandAt allows: none of the five
\* points of its footprint is blocked.
C8_PlayerFootprintFree ==
  canStandAt(map, player.x, player.y)

\* C9: no enemy is ever at a position that isBlockedAtWorld reports blocked.
C9_EnemyNeverBlocked ==
  \A i \in DOMAIN enemies : ~IsBlockedAtWorld(map, enemies[i].x, enemies[i].y)

\* C10: on each axis by itself, when the world is at least as large as the
\* view the camera position is within [0, world - view]; renderX and renderY
\* are the floors of x and y.
C10_CameraContained ==
  /\ camera.worldW >= camera.viewW =>
       0 <= camera.x /\ camera.x <= camera.worldW - camera.viewW
  /\ camera.worldH >= camera.viewH =>
       0 <= camera.y /\ camera.y <= camera.worldH - camera.viewH
  /\ Px(renderX(camera)) <= camera.x /\ camera.x < Px(renderX(camera) + 1)
  /\ Px(renderY(camera)) <= camera.y /\ camera.y < Px(renderY(camera) + 1)

\* C10 happens: follow has stopped the camera at the right edge of a world
\* wider than the view, while on the other axis it is strictly inside its
\* range, at a position that is not a whole pixel
C10_Witness ==
  /\ sched.tick > 0
  /\ camera.worldW > camera.viewW
  /\ camera.x = camera.worldW - camera.viewW
  /\ camera.worldH >= camera.viewH
  /\ camera.y > 0
  /\ camera.y < camera.worldH - camera.viewH
  /\ camera.y # Px(renderY(camera))

\* the first step at or after i whose predicate is false, the last step if
\* there is none before it
FirstOpenStep(i) ==
  LET open == {k \in i..(LastStep - 1) : ~StepComplete(World, k)}
  IN IF open = {} THEN LastStep ELSE MinOf(open)

\* C11: whatever the flags and the enemy list do, the objective index never
\* decreases from one step to the next and stays within 0 and the last step;
\* a call that finds the index at the last step leaves it there.
C11_ObjectiveIndexMonotone ==
  /\ hist.indexPre <= game.objectives.index
  /\ 0 <= game.objectives.index
  /\ game.objectives.index <= LastStep
  /\ (hist.objCalls > 0 /\ hist.indexPre = LastStep) => game.objectives.index = LastStep

\* C11 happens: update has been called with the index at the last step and
\* that step's predicate (win) true
C11_Witness ==
  /\ hist.objCalls > 0
  /\ hist.indexPre = LastStep
  /\ game.win
  /\ ~game.gameOver
  /\ game.objectives.index = LastStep

\* C12 as stated: after every update call the index is the first step at or
\* after the old index whose predicate is false, or the last step.
C12_AdvancesThroughSatisfied ==
  hist.objCalls > 0 => game.objectives.index = FirstOpenStep(hist.indexPre)

\* C12 amended: after an update call made while gameOver is not set the
\* index is the first step at or after the old index whose predicate is
\* false, or the last step; a call made while gameOver is set leaves the
\* index as it was.
C12_AdvancesUnlessGameOver ==
  hist.objCalls > 0 =>
    game.objectives.index =
      IF game.gameOver THEN hist.indexPre ELSE FirstOpenStep(hist.indexPre)

\* C12 happens: one call has moved the index over two steps or more
C12_Witness ==
  /\ hist.objCalls > 0
  /\ ~game.gameOver
  /\ game.objectives.index >= hist.indexPre + 2
  /\ game.objectives.index < LastStep

\* the projectile k has run out of lifetime
ShotOutOfLife(k) == projectiles[k].life <= 0

\* the projectile k is at a blocked point
ShotInWall(k) == IsBlockedAtWorld(map, projectiles[k].x, projectiles[k].y)

\* the player is within hit range of the projectile k
ShotAtPlayer(k) == ProjectileNearPlayer(projectiles[k], player)

\* C13: a projectile is ended by exactly one of lifetime, wall and player hit:
\* it is flagged only by an update after which one of the three holds, lifetime
\* goes before wall and wall before the hit (an update after which the lifetime
\* is over or the point is blocked calls no takeDamage, even with the player in
\* range), an update in range otherwise calls takeDamage once and flags the
\* projectile, and over its whole life a projectile calls takeDamage at most once.
C13_ProjectileEndsOnce ==
  \A k \in DOMAIN projectiles :
    /\ hist.prHits[k] <= 1
    /\ hist.prHits[k] = 1 => projectiles[k].removeFromWorld
    /\ projectiles[k].removeFromWorld => hist.prAge[k] >= 1
    /\ hist.prLast = k =>
         /\ projectiles[k].removeFromWorld
              <=> (ShotOutOfLife(k) \/ ShotInWall(k) \/ ShotAtPlayer(k))
         /\ (ShotOutOfLife(k) \/ ShotInWall(k)) => hist.pCalls = 0 /\ hist.prHits[k] = 0
         /\ (~ShotOutOfLife(k) /\ ~ShotInWall(k) /\ ShotAtPlayer(k))
              => hist.pCalls = 1 /\ hist.prHits[k] = 1

\* a projectile has hit the player and is flagged
C13_Witness ==
  /\ hist.prLast = 1
  /\ hist.prHits[1] = 1
  /\ projectiles[1].removeFromWorld
  /\ player.hp < PLAYER_MAX_HP

\* wall and player at once: the update that put the projectile in the building
\* beside the player flagged it without damage
C13_WitnessWallFirst ==
  /\ hist.prLast = 1
  /\ ~ShotOutOfLife(1) /\ ShotInWall(1) /\ ShotAtPlayer(1)
  /\ projectiles[1].removeFromWorld
  /\ player.hp = PLAYER_MAX_HP

\* the displacement of one update of the projectile created as s
ShotStep(s) == [dx |-> Trunc(s.vx * s.speed, 1000), dy |-> Trunc(s.vy * s.speed, 1000)]

AtKey(k) == PlayerWithin(World, pickups[k].x, pickups[k].y, pickups[k].pickupRadius)

\* the key k is still in the entity list
KeyListed(k) ==
  \E n \in DOMAIN game.entities :
    game.entities[n].tag = "pickup_key" /\ game.entities[n].id = k

\* C15: a key is picked up exactly once: its update with the player within
\* pickupRadius adds exactly 1 to keysCollected and flags the key, an update
\* out of range and every step that is no key update leave keysCollected as it
\* was, and no key is ever counted twice, however long the player stays in range.
C15_KeyPickedOnce ==
  /\ \A k \in DOMAIN pickups :
       /\ hist.kPicks[k] <= 1
       /\ hist.kPicks[k] = 1 <=> pickups[k].removeFromWorld
       /\ (hist.kLast = k /\ AtKey(k))
            => game.keysCollected = hist.keysPre + 1 /\ pickups[k].removeFromWorld
       /\ (hist.kLast = k /\ ~AtKey(k)) => game.keysCollected = hist.keysPre
  /\ hist.kLast = 0 => game.keysCollected = hist.keysPre
  /\ game.keysCollected = Cardinality({k \in DOMAIN pickups : hist.kPicks[k] = 1})

\* key 1 was picked up in an earlier tick and has left the entity list; the
\* loop of a later tick has passed the keys with the player still in range,
\* and keysCollected is still 1
C15_Witness ==
  /\ hist.kPicks[1] = 1
  /\ ~KeyListed(1)
  /\ sched.turn = sched.count + 1
  /\ AtKey(1)
  /\ game.keysCollected = 1

\* C16: the update of a key with the player within its wake radius leaves
\* every guard that main.js linked to the key awake.
C16_GuardsWoken ==
  \A k \in DOMAIN pickups :
    (hist.kLast = k /\ ~game.gameOver
       /\ PlayerWithin(World, pickups[k].x, pickups[k].y, pickups[k].wakeRadius))
      => \A g \in KeyGuards[k] : ~enemies[g].asleep

\* C17: win is true only when 3 keys are collected, no enemy is left and the
\* story scroll has been read.
C17_WinNeedsAllThree ==
  game.win =>
    /\ game.keysCollected >= 3
    /\ EnemiesLeft(World) = 0
    /\ game.storyRead

\* the point asked last is outside the world
AskedOutside ==
  hist.x < 0 \/ hist.y < 0 \/ hist.x >= map.WORLD_W \/ hist.y >= map.WORLD_H

\* the point asked last is in a cell that holds a tile of the "Walls" layer
AskedOnWallTile ==
  \E cell \in map.walls :
    /\ hist.x >= Px(cell[1] * TILE_SIZE) /\ hist.x < Px((cell[1] + 1) * TILE_SIZE)
    /\ hist.y >= Px(cell[2] * TILE_SIZE) /\ hist.y < Px((cell[2] + 1) * TILE_SIZE)

\* the point asked last is on a tile object
AskedOnTileObject ==
  \E o \in map.tileObjects :
    /\ hist.x >= o.x /\ hist.x < o.x + o.w
    /\ hist.y >= o.y /\ hist.y < o.y + o.h

\* the point asked last is inside a collider of the given type
AskedInCollider(type) ==
  \E r \in map.tiledColliders :
    /\ r.type = type
    /\ hist.x >= r.x /\ hist.x < r.x + r.w
    /\ hist.y >= r.y /\ hist.y < r.y + r.h

\* C18 as stated: isBlockedAtWorld is true for every point outside the world,
\* and for a point inside exactly when the point is on a wall tile, on a
\* placed tile object or inside a collider of type "solid".
C18_BlockedByTileObjectOrSolid ==
  hist.asked =>
    /\ AskedOutside => hist.blocked
    /\ ~AskedOutside =>
         (hist.blocked <=>
            (AskedOnWallTile \/ AskedOnTileObject \/ AskedInCollider("solid")))

\* C18 as the code has it: isBlockedAtWorld is true for every point outside
\* the world, and for a point inside exactly when the point is inside a
\* collider of type "solid"; wall tiles, tile objects and colliders of other
\* types do not block.
C18_BlockedBySolidOnly ==
  hist.asked =>
    /\ AskedOutside => hist.blocked
    /\ ~AskedOutside => (hist.blocked <=> AskedInCollider("solid"))

\* a point inside the pond (type "water") was asked and is not blocked
C18_Witness ==
  /\ hist.asked
  /\ ~AskedOutside
  /\ AskedInCollider("water")
  /\ ~AskedInCollider("solid")
  /\ ~hist.blocked

\* C19: a dead enemy is in state "die", in every state after its death.
C19_DieIsTerminal ==
  \A i \in DOMAIN enemies : enemies[i].dead => enemies[i].state = "die"

\* the length of the death clip of the enemy e (ms)
DieClip(e) == TYPES[e.type].anim.die.frames * TYPES[e.type].anim.die.ft

\* C20: a dead enemy is flagged for removal exactly when the tick time of its
\* updates since its death has reached die.frames x die.ft: not before, and
\* no update leaves it unflagged after.
C20_DeadEnemyRemovedOnTime ==
  \A i \in DOMAIN enemies :
    enemies[i].dead =>
      (enemies[i].removeFromWorld <=> hist.eDieTime[i] >= DieClip(enemies[i]))

\* the last step was an update of the enemy i
EnemyUpdated(i) == hist.eLast = i

\* C21: an update of an asleep enemy leaves it in state "idle" with its
\* position, attack lock and attack cooldown as they were, calls no takeDamage
\* on the player and adds no projectile, whatever the enemy was doing when it
\* fell asleep and however often it is updated.
C21_AsleepHoldsStill ==
  \A i \in DOMAIN enemies :
    (EnemyUpdated(i) /\ hist.uPre.asleep) =>
      /\ enemies[i].asleep
      /\ enemies[i].state = "idle"
      /\ enemies[i].x = hist.uPre.x /\ enemies[i].y = hist.uPre.y
      /\ enemies[i].attackLocked = hist.uPre.attackLocked
      /\ enemies[i].attackCooldown = hist.uPre.attackCooldown
      /\ enemies[i].hp = hist.uPre.hp
      /\ hist.pCalls = 0
      /\ player.hp = hist.hpPre
      /\ Len(projectiles) = hist.uShots

\* an enemy that fell asleep in mid-swing, its cooldown running, has been
\* updated with the player inside its attack range
C21_Witness ==
  /\ EnemyUpdated(1)
  /\ hist.uPre.asleep
  /\ ~hist.uPre.dead
  /\ hist.uPre.attackLocked
  /\ hist.uPre.attackCooldown > 0
  /\ Within(player.x - enemies[1].x, player.y - enemies[1].y,
            Tenths(TYPES[enemies[1].type].stats.attackRange))
  /\ enemies[1].state = "idle"

\* the position, the state and the hit points of every entity the player and
\* the enemies own stay as they are in the step
GameplayHeld ==
  /\ player'.x = player.x /\ player'.y = player.y
  /\ player'.hp = player.hp
  /\ player'.animKey = player.animKey
  /\ \A i \in DOMAIN enemies :
       /\ enemies'[i].x = enemies[i].x /\ enemies'[i].y = enemies[i].y
       /\ enemies'[i].state = enemies[i].state

\* C22: while game.storyModalOpen is true, an update of the player or of an
\* enemy changes no entity's position or state and not the player's hit
\* points, and the camera is where following the player's position puts it.
C22_FrozenWhileStoryOpen ==
  [][(game.storyModalOpen /\ InLoop /\ Current.tag \in {"enemy", "player"}) =>
       /\ GameplayHeld
       /\ Current.tag = "player" =>
            camera' = Camera_follow(camera, player.x, player.y)]_vars

\* the definition given to the creation has a fault: a type that is not in
\* TYPES, no anim set, a clip that update reads left out, or no hp stat
FaultyDefinition(opts) ==
  \/ opts.type \notin DOMAIN TYPES
  \/ ~opts.hasAnim
  \/ opts.clips # Clips
  \/ ~opts.hasHp

\* C23: creating an enemy of an unknown type, or from a definition that lacks
\* a required animation or stat, throws during buildDef or the constructor
\* and makes no enemy; no created enemy fails later in update.
C23_ConfigErrorsFailFast ==
  /\ (hist.made /\ FaultyDefinition(hist.opts)) =>
       (hist.thrown # "" /\ enemies = <<>>)
  /\ hist.later = ""

\* the step puts the enemy i, which was not attack-locked, under attack lock
AttackEntered(i) == ~enemies[i].attackLocked /\ enemies'[i].attackLocked

\* the cooldown of the enemy e once an update over dt has run it down
CooldownAfter(e, dt) ==
  IF e.attackCooldown > 0 THEN Max(0, e.attackCooldown - dt) ELSE e.attackCooldown

\* C24: an enemy enters Attack only in its own update, and only if it is
\* awake, alive, not hurt-locked, not spawning, within attackRange of the
\* player and its cooldown, run down by the tick, is exactly 0; the entry
\* leaves it in state "attack" with attackLocked set, attackDidHit and
\* projectileFired false and attackCooldown at the cooldown of its type.
C24_AttackEntry ==
  [][\A i \in DOMAIN enemies :
       AttackEntered(i) =>
         LET e == enemies[i]
             S == TYPES[e.type].stats
         IN /\ hist'.eLast = i
            /\ ~e.asleep /\ ~e.dead /\ ~e.hurtLocked /\ ~e.spawnLocked
            /\ Within(player.x - e.x, player.y - e.y, Tenths(S.attackRange))
            /\ CooldownAfter(e, Dt(game')) = 0
            /\ enemies'[i].state = "attack"
            /\ enemies'[i].animElapsed = 0
            /\ ~enemies'[i].attackDidHit
            /\ ~enemies'[i].projectileFired
            /\ enemies'[i].attackCooldown = S.attackCooldown
            /\ S.attackCooldown > 0
            /\ enemies'[i].x = e.x /\ enemies'[i].y = e.y]_vars

\* an enemy that walked up to the player has come within range and started
\* its attack
C24_Witness ==
  /\ EnemyUpdated(1)
  /\ ~hist.uPre.attackLocked
  /\ hist.uPre.state = "walk"
  /\ hist.uPre.attackCooldown = 0
  /\ enemies[1].attackLocked
  /\ enemies[1].state = "attack"
  /\ enemies[1].attackCooldown = TYPES[enemies[1].type].stats.attackCooldown

\* the step is the player's update in the engine loop
PlayerTurn == InLoop /\ Current.tag = "player"

\* the player's update runs past its early returns and reads the attack keys
ReadsAttackKeys ==
  ~game.storyModalOpen /\ ~player.isDead /\ ~game.gameOver /\ ~game.win

\* the step starts a swing of attack 1
Swing1Started == ~player.attacking /\ player'.attacking

\* C25: a swing of attack 1 starts only in a player update that finds key 1
\* down, attackHeld false and no attack 1 or 2 in progress; attackHeld is
\* written by the updates that read the keys and by nothing else, to whether
\* key 1 is down, so with the key held from one such update to the next, over
\* the end of a swing or a swing cancelled by damage, no second swing starts.
C25_Attack1EdgeTriggered ==
  [][/\ Swing1Started =>
          /\ PlayerTurn /\ ReadsAttackKeys
          /\ "1" \in game.keys
          /\ ~player.attackHeld
          /\ ~player.attacking2 /\ ~player'.attacking2
     /\ (PlayerTurn /\ ReadsAttackKeys) =>
          player'.attackHeld = ("1" \in game.keys)
     /\ ~(PlayerTurn /\ ReadsAttackKeys) =>
          player'.attackHeld = player.attackHeld
     /\ (player.attackHeld /\ "1" \in game.keys) => ~Swing1Started]_vars

\* the player's update has just run with key 1 still down after the swing it
\* started was cancelled by a hit: it is held back, no swing is under way
C25_Witness ==
  /\ sched.turn >= 2
  /\ game.entities[sched.turn - 1].tag = "player"
  /\ "1" \in game.keys
  /\ player.attackHeld
  /\ ~player.attacking /\ ~player.attacking2
  /\ ~player.isDead
  /\ player.hp < player.maxHp
  /\ player.animKey.state = "idle"

\* the length of the clip cfg in ms
ClipTime(cfg) == cfg.frames * cfg.ft

\* every attack under way has run for less than its clip
AttackTimeLeft ==
  /\ \A i \in DOMAIN enemies :
       enemies[i].attackLocked =>
         /\ enemies[i].state = "attack"
         /\ enemies[i].animElapsed < ClipTime(TYPES[enemies[i].type].anim.attack)
  /\ player.attacking =>
       /\ player.animKey.state = "attack"
       /\ player.animElapsed < ClipTime(PlayerAnim["attack"])
  /\ player.attacking2 =>
       /\ player.animKey.state = "attack2"
       /\ player.animElapsed < ClipTime(PlayerAnim["attack2"])

\* an attack lock that is dropped without a hit is dropped by the update that
\* brings the time run up to the length of the clip, and leaves the entity idle
AttackEndsIdle ==
  /\ \A i \in DOMAIN enemies :
       (enemies[i].attackLocked /\ ~enemies'[i].attackLocked /\ hist'.eCalls[i] = 0) =>
         /\ hist'.eLast = i
         /\ enemies[i].animElapsed + Dt(game)
              >= ClipTime(TYPES[enemies[i].type].anim.attack)
         /\ enemies'[i].state = "idle"
         /\ enemies'[i].animElapsed = 0
  /\ ((player.attacking \/ player.attacking2) /\ hist'.pCalls = 0
        /\ ~player'.attacking /\ ~player'.attacking2) =>
         /\ PlayerTurn
         /\ player.animElapsed + Dt(game) >= ClipTime(PlayerAnim[player.animKey.state])
         /\ player'.animKey.state = "idle"
         /\ player'.animElapsed = 0

\* the last tick of a run is reached
LastTick == sched.tick = MaxTick

HurtEnd(type) ==
  LET full == ClipTime(TYPES[type].anim.hurt)
      recovery == TYPES[type].stats.hurtRecovery
  IN IF recovery >= 0 THEN Min(recovery, full) ELSE full

\* C27: an enemy is hurt-locked only while the tick time since the hit is
\* less than min(hurtRecovery, hurt clip time): the update that reaches that
\* time clears hurtLocked and leaves the enemy idle, so no enemy stays
\* hurt-locked, and immune to damage, for good.
C27_HurtEnds ==
  \A i \in DOMAIN enemies :
    (enemies[i].hurtLocked /\ ~enemies[i].dead) =>
      enemies[i].animElapsed < HurtEnd(enemies[i].type)

\* the knockback velocity of the player p is above 0.01 on some axis
KnockApplies(p) == Abs(p.knockVX) * 100 > U \/ Abs(p.knockVY) * 100 > U

\* the player p after one knockback move on the map m, velocity spent: the
\* move along x, then the move along y, each only onto free ground
KnockedPlayer(m, p) ==
  LET x1 == IF canStandAt(m, p.x + p.knockVX, p.y) THEN p.x + p.knockVX ELSE p.x
      y1 == IF canStandAt(m, x1, p.y + p.knockVY) THEN p.y + p.knockVY ELSE p.y
  IN [p EXCEPT !.x = x1, !.y = y1, !.knockVX = 0, !.knockVY = 0]

\* the step is a call of Player.update in a knockback run
KnockUpdate == sched'.tick = sched.tick + 1 /\ hist'.pCalls = 0

\* the update moves the player as it would move a player that had already
\* made the knockback move and had no velocity left, and damps both axes
KnockThenInput ==
  LET moved == Player_update([World EXCEPT !.game = game',
                                            !.player = KnockedPlayer(map, player)])
  IN /\ player'.x = moved.player.x
     /\ player'.y = moved.player.y
     /\ player'.animKey = moved.player.animKey
     /\ player'.knockVX = Trunc(player.knockVX * 75, 100)
     /\ player'.knockVY = Trunc(player.knockVY * 75, 100)
     /\ Abs(player'.knockVX) <= Abs(player.knockVX)
     /\ Abs(player'.knockVY) <= Abs(player.knockVY)

\* 0.01 pixel in whole model units
KnockEps == U \div 100

\* the player has knockback left: KnockApplies(player), on whole units
KnockLeft == Abs(player.knockVX) > KnockEps \/ Abs(player.knockVY) > KnockEps

\* C28: in every update of the player after a hit, whether the player is
\* idle, walking or in attack 1 or 2, a knockback above 0.01 is applied before
\* the input movement, as one move per axis made only onto unblocked ground,
\* and both velocities are multiplied by 0.75; a knockback at or below 0.01
\* is left alone and not applied; with no further hit it gets there.
C28_KnockbackMotion ==
  /\ [][KnockUpdate =>
          /\ KnockApplies(player) => KnockThenInput
          /\ ~KnockApplies(player) =>
               /\ player'.knockVX = player.knockVX
               /\ player'.knockVY = player.knockVY]_vars
  /\ KnockLeft ~> ~KnockLeft

\* in mid-swing of attack 1 a knockback was applied along y while the wall
\* kept the player from moving along x
C28_Witness ==
  /\ hist.pCalls = 0
  /\ sched.tick > 0
  /\ player.attacking
  /\ player.animElapsed > 0
  /\ KnockApplies(player)
  /\ player.knockVX < 0
  /\ player.x > Px(140)
  /\ ~canStandAt(map, player.x + Trunc(player.knockVX * 100, 75), player.y)
  /\ player.y < Px(160)

\* the frame of its attack clip the enemy e is in after an update over dt
AttackFrameAfter(e, dt) == (e.animElapsed + dt) \div TYPES[e.type].anim.attack.ft

\* C29: a projectile is added only by the update of a ranged enemy that is in
\* frame 5 of its attack with projectileFired false, one projectile, and the
\* update sets the flag; the flag is set by nothing else and is reset only by
\* the start of the next attack: a swing fires at most one projectile.
C29_OneShotPerSwing ==
  [][/\ Len(projectiles') # Len(projectiles) =>
          /\ Len(projectiles') = Len(projectiles) + 1
          /\ \E i \in DOMAIN enemies :
               /\ hist'.eLast = i
               /\ TYPES[enemies[i].type].ranged
               /\ enemies[i].attackLocked
               /\ ~enemies[i].projectileFired
               /\ enemies'[i].projectileFired
               /\ AttackFrameAfter(enemies[i], Dt(game')) = 5
     /\ \A i \in DOMAIN enemies :
          /\ (~enemies[i].projectileFired /\ enemies'[i].projectileFired) =>
               Len(projectiles') = Len(projectiles) + 1
          /\ (enemies[i].projectileFired /\ ~enemies'[i].projectileFired) =>
               AttackEntered(i)]_vars

\* the dragon, having fired in frame 5 of its swing, has been updated once
\* more in frame 5 and has added no second projectile
C29_Witness ==
  /\ EnemyUpdated(1)
  /\ hist.uPre.attackLocked
  /\ hist.uPre.projectileFired
  /\ AttackFrameAfter(hist.uPre, Dt(game)) = 5
  /\ Len(projectiles) = 1
  /\ hist.uShots = 1

\* the player, alive, is about to be updated for the first time since a hit
\* landed: the timer the hit started has not yet been run down
FirstUpdateAfterHit ==
  /\ PlayerTurn
  /\ hist.hit.tick > 0
  /\ ~player.isDead
  /\ player.hurtInvuln = IFRAMES

\* the player's update has run the timers of the hit down by the tick time
\* and has made the knockback move of the hit
HitObserved ==
  /\ player'.hurtInvuln = IFRAMES - Dt(game)
  /\ player'.flashTimer = IFRAMES - Dt(game)
  /\ KnockApplies(player) =>
       /\ player'.knockVX = Trunc(player.knockVX * 75, 100)
       /\ player'.knockVY = Trunc(player.knockVY * 75, 100)

\* C30 as claimed: damage an enemy's update applies to the player in tick t
\* is first met by the player's update of tick t+1, not of tick t.
C30_EnemyDamageSeenNextTick ==
  [][(FirstUpdateAfterHit /\ hist.hit.by = "enemy") =>
       sched.tick = hist.hit.tick + 1]_vars

\* C30: the enemies are registered before the player, so damage an enemy's
\* update applies in tick t is met by the player's update of the same tick t,
\* which runs its timers down and makes its knockback move; damage from a
\* projectile, registered after the player, is met in tick t+1.
C30_EnemyDamageSeenSameTick ==
  [][FirstUpdateAfterHit =>
       /\ hist.hit.by = "enemy" => sched.tick = hist.hit.tick
       /\ hist.hit.by = "projectile" => sched.tick = hist.hit.tick + 1
       /\ HitObserved]_vars

\* the player's update of the tick in which an enemy's swing landed has run:
\* the timer of the hit is already one tick down
C30_Witness ==
  /\ sched.turn >= 2
  /\ game.entities[sched.turn - 1].tag = "player"
  /\ hist.hit.by = "enemy"
  /\ hist.hit.tick = sched.tick
  /\ ~player.isDead
  /\ player.hp < player.maxHp
  /\ player.hurtInvuln = IFRAMES - Dt(game)

-----------------------------------------------------------------------------
(* C31 *)

\* the camera is where Camera.follow puts it for the player's position
CameraOnPlayer(c, p) == c = Camera_follow(c, p.x, p.y)

\* C31: after every Player.update (moving, attacking, paused, dead, game
\* over or won) the camera is at the clamped viewport-centring of the
\* player's position, and no step but Player.update moves the camera.
C31_CameraTracksPlayer ==
  [][/\ PlayerTurn => CameraOnPlayer(camera', player')
     /\ ~PlayerTurn => camera' = camera]_vars

\* the player was moved off the spawn point and then killed; its update has
\* just returned early, without a follow, and the camera, away from the
\* map's edges, is still centred on the player
C31_Witness ==
  /\ sched.turn >= 2
  /\ game.entities[sched.turn - 1].tag = "player"
  /\ player.isDead
  /\ game.gameOver
  /\ camera.x > 0
  /\ camera.x < camera.worldW - camera.viewW
  /\ camera.x = player.x - Trunc(camera.viewW, 2)
  /\ player.x # NewPlayer(map).x

-----------------------------------------------------------------------------
(* C32 *)

\* the story scroll is the entity whose update this step runs
ScrollTurn == InLoop /\ Current.tag = "pickup_scroll" /\ ~Flagged(World, Current)

\* the player stands within the interact radius of scroll k
NearScroll(k) ==
  Hypot(player.x - scrolls[k].x, player.y - scrolls[k].y) <= scrolls[k].interactRadius

\* E is down in this tick and was not down at the scroll's previous update
NewlyPressedE(k) ==
  ("e" \in game.keys \/ "E" \in game.keys) /\ ~scrolls[k].eHeld

\* C32: the story overlay opens only in an update of the scroll in which E is
\* newly pressed, the player is within the interact radius and storyRead is
\* false; that update sets storyRead, and storyRead never returns to false,
\* so the overlay opens at most once per game.
C32_StoryOpensOnce ==
  [][/\ (~game.storyModalOpen /\ game.storyModalOpen') =>
          /\ ScrollTurn
          /\ NewlyPressedE(Current.id)
          /\ NearScroll(Current.id)
          /\ ~game.storyRead
          /\ game.storyRead'
     /\ game.storyRead => game.storyRead']_vars

\* the story was opened and closed again; E is down once more next to the
\* scroll, whose update has just run, and the overlay stays closed
C32_Witness ==
  /\ sched.turn >= 2
  /\ game.entities[sched.turn - 1].tag = "pickup_scroll"
  /\ game.storyRead
  /\ ~game.storyModalOpen
  /\ "e" \in game.keys
  /\ scrolls[1].eHeld
  /\ NearScroll(1)

-----------------------------------------------------------------------------
(* Level setup of one guard: the Enemy constructor draws a spawn tile with
   pickRandomSpawn, then main.js puts the guard to sleep and moves it to the
   position findSpawnNear draws around its key point. Math.random is any
   draw; every pass of a retry loop is one step *)

\* const tries = 200 of Enemy.pickRandomSpawn
PICK_TRIES == 200
\* tries = 60 of findSpawnNear
NEAR_TRIES == 60
\* stats.minFromPlayer of every type, in pixels
MIN_FROM_PLAYER == 240
\* findSpawnNear(p, 140): the radius around the key point, in pixels
NEAR_RADIUS == 140

\* the maps of the setups: the player spawns in a corner of a field with a
\* wall segment, or beside a building
SpawnMaps == {LoadMap(48, 48, FieldColliders), LoadMap(255, 160, CornerColliders)}

\* the key points (pixels): in the open, inside the wall segment of the
\* field, inside the building, near the edge of the world
KeyPoints ==
  {[x |-> Px(160), y |-> Px(48)], [x |-> Px(100), y |-> Px(160)],
   [x |-> Px(170), y |-> Px(130)], [x |-> Px(300), y |-> Px(20)]}

\* center + (cos(ang) * r, sin(ang) * r) with r < radiusPx: the offsets drawn
NearOffsets ==
  {off \in {[dx |-> Px(a), dy |-> Px(b)] : a, b \in {-120, -60, -8, 0, 8, 60, 120}} :
     Hypot(off.dx, off.dy) < Px(NEAR_RADIUS)}

InitSpawn ==
  /\ map \in SpawnMaps
  /\ camera = NewCamera(Px(ViewW), Px(ViewH), map.WORLD_W, map.WORLD_H)
  /\ player = NewPlayer(map)
  /\ enemies = <<>>
  /\ projectiles = <<>>
  /\ hearts = <<>>
  /\ pickups = <<>>
  /\ scrolls = <<>>
  /\ game = NewGame(<<>>)
  /\ sched = [tick |-> 0, turn |-> 0, count |-> 0]
  /\ \E c \in KeyPoints :
       hist = [phase |-> "pick", center |-> c, fallback |-> FALSE]

\* one more pass of the running loop (continue)
NextTry ==
  /\ sched' = [sched EXCEPT !.tick = @ + 1]
  /\ UNCHANGED <<map, camera, player, enemies, projectiles, hearts, pickups,
                 scrolls, game, hist>>

\* Enemy.pickRandomSpawn returns (x, y): the constructor ends with the enemy
\* there, main.js sets e.asleep = true and calls findSpawnNear
Spawned(x, y) ==
  /\ enemies' = <<NewEnemy("skeletonWhite", NoOverride, x, y, TRUE)>>
  /\ hist' = [hist EXCEPT !.phase = "near"]
  /\ sched' = [sched EXCEPT !.tick = 0]
  /\ UNCHANGED <<map, camera, player, projectiles, hearts, pickups, scrolls, game>>

\* one pass of the loop of Enemy.pickRandomSpawn: a random tile, taken if its
\* centre is at least minFromPlayer away from the player
PickTry ==
  /\ hist.phase = "pick"
  /\ sched.tick < PICK_TRIES
  /\ \E col \in 0..(MapCols - 1), row \in 0..(MapRows - 1) :
       LET x == Px(col * TILE_SIZE) + Trunc(Px(TILE_SIZE), 2)
           y == Px(row * TILE_SIZE) + Trunc(Px(TILE_SIZE), 2)
           d == Hypot(player.x - x, player.y - y)
       IN IF d < Px(MIN_FROM_PLAYER) THEN NextTry ELSE Spawned(x, y)

\* Enemy.pickRandomSpawn after the loop: return { x: player.x + 300, y: player.y }
PickFallback ==
  /\ hist.phase = "pick"
  /\ sched.tick = PICK_TRIES
  /\ Spawned(player.x + Px(300), player.y)

\* findSpawnNear returns (x, y): e.x = s.x; e.y = s.y
Placed(x, y, fallback) ==
  /\ enemies' = [enemies EXCEPT ![1].x = x, ![1].y = y]
  /\ hist' = [hist EXCEPT !.phase = "placed", !.fallback = fallback]
  /\ UNCHANGED <<map, camera, player, projectiles, hearts, pickups, scrolls,
                 game, sched>>

\* one pass of the loop of findSpawnNear: a random point around the key
\* point, taken if it is inside the world and not blocked
NearTry ==
  /\ hist.phase = "near"
  /\ sched.tick < NEAR_TRIES
  /\ \E off \in NearOffsets :
       LET x == hist.center.x + off.dx
           y == hist.center.y + off.dy
       IN IF x < 0 \/ y < 0 \/ x >= map.WORLD_W \/ y >= map.WORLD_H
          THEN NextTry
          ELSE IF IsBlockedAtWorld(map, x, y) THEN NextTry
          ELSE Placed(x, y, FALSE)

\* findSpawnNear after the loop: return { x: center.x, y: center.y }
NearFallback ==
  /\ hist.phase = "near"
  /\ sched.tick = NEAR_TRIES
  /\ Placed(hist.center.x, hist.center.y, TRUE)

NextSpawn == PickTry \/ PickFallback \/ NearTry \/ NearFallback

SpecSpawn == InitSpawn /\ [][NextSpawn]_vars

-----------------------------------------------------------------------------
(* C33 *)

\* C33: the spawn searches are bounded retries with a safe fallback:
\* pickRandomSpawn makes at most 200 tries and findSpawnNear at most 60, and
\* the position a guard ends level setup with is inside the world and not
\* blocked, whether it is an accepted candidate or the fallback.
C33_SpawnSearchSafe ==
  /\ hist.phase = "pick" => sched.tick <= PICK_TRIES
  /\ hist.phase = "near" => sched.tick <= NEAR_TRIES
  /\ hist.phase = "placed" =>
       /\ enemies[1].x >= 0 /\ enemies[1].x < map.WORLD_W
       /\ enemies[1].y >= 0 /\ enemies[1].y < map.WORLD_H
       /\ ~IsBlockedAtWorld(map, enemies[1].x, enemies[1].y)

-----------------------------------------------------------------------------
(* The end of a level: the three keys lie at the spawn point, the story
   scroll 70 px to its right, the last enemy is a dragon that is awake, built
   from a spawn plan with overrides (2 hp, a projectile of 15 damage), 90 px
   above the player; the entities are those of main.js, in its order *)

\* the most ticks of a run to the end of the level
MaxOutcomeTick == 20

\* the key sets that are down during a tick: nothing, attack 2, interact
OutcomeKeySets == {{}, {"2"}, {"e"}}

InitOutcome ==
  /\ map = LoadMap(160, 160, {})
  /\ camera = NewCamera(Px(ViewW), Px(ViewH), map.WORLD_W, map.WORLD_H)
  /\ player = NewPlayer(map)
  /\ enemies = <<NewEnemy("dragon", [hp |-> 2, projectileDamage |-> 15],
                          Px(160), Px(70), FALSE)>>
  /\ projectiles = <<>>
  /\ hearts = <<>>
  /\ pickups = <<NewKey(Px(160), Px(160), KeyOptions({})),
                 NewKey(Px(170), Px(160), KeyOptions({})),
                 NewKey(Px(160), Px(170), KeyOptions({}))>>
  /\ scrolls = <<NewScroll(Px(230), Px(170), [radius |-> 80])>>
  /\ game = NewGame(<<[tag |-> "enemy", id |-> 1], [tag |-> "player", id |-> 0],
                      [tag |-> "pickup_scroll", id |-> 1],
                      [tag |-> "pickup_key", id |-> 1], [tag |-> "pickup_key", id |-> 2],
                      [tag |-> "pickup_key", id |-> 3],
                      [tag |-> "win_checker", id |-> 0], [tag |-> "hud", id |-> 0],
                      [tag |-> "tile_map", id |-> 0]>>)
  /\ sched = [tick |-> 0, turn |-> 0, count |-> 0]
  /\ hist = [NewHist({1}) EXCEPT !.kPicks = <<0, 0, 0>>]

OutcomeStartTick ==
  /\ sched.turn = 0
  /\ sched.tick < MaxOutcomeTick
  /\ \E keys \in OutcomeKeySets, dt \in ClockTicks :
       Commit([NoCalls(World) EXCEPT !.game.keys = keys, !.game.clockTick = dt])
  /\ sched' = [tick |-> sched.tick + 1, turn |-> 1, count |-> Len(game.entities)]

NextOutcome == OutcomeStartTick \/ LevelUpdate \/ EndTick \/ CloseStory

SpecOutcome == InitOutcome /\ [][NextOutcome]_vars

-----------------------------------------------------------------------------
(* C34 *)

\* C34: win and game over exclude each other: in no reachable state are
\* game.win and game.gameOver both true, also when a projectile that is in
\* flight at the moment of winning reaches the player afterwards.
C34_WinExcludesGameOver == ~(game.win /\ game.gameOver)

-----------------------------------------------------------------------------
(* A run through the level as main.js wires it, scaled to one guard: the
   three keys lie at the spawn point, the guard of key 1, a skeleton, is
   created asleep 80 px below the player, who faces it, and is passed to its
   key under guardEnemies. The player plays to win: attack 2 at once, then
   attack 1 pressed anew every second tick *)

\* the ticks of the run: enough for three swings of attack 1 after the splash
\* and for the skeleton's death clip
MaxQuestTick == 30

\* the keys that are down in tick t
Walkthrough(t) == IF t = 1 THEN {"2"} ELSE IF t % 2 = 1 THEN {"1"} ELSE {}

InitQuest ==
  /\ map = LoadMap(160, 160, {})
  /\ camera = NewCamera(Px(ViewW), Px(ViewH), map.WORLD_W, map.WORLD_H)
  /\ player = NewPlayer(map)
  /\ enemies = <<NewEnemy("skeletonWhite", NoOverride, Px(160), Px(240), TRUE)>>
  /\ projectiles = <<>>
  /\ hearts = <<>>
  /\ pickups = <<NewKey(Px(160), Px(160), KeyOptions({1})),
                 NewKey(Px(170), Px(160), KeyOptions({})),
                 NewKey(Px(160), Px(170), KeyOptions({}))>>
  /\ scrolls = <<>>
  /\ game = NewGame(<<[tag |-> "enemy", id |-> 1], [tag |-> "player", id |-> 0],
                      [tag |-> "pickup_key", id |-> 1], [tag |-> "pickup_key", id |-> 2],
                      [tag |-> "pickup_key", id |-> 3],
                      [tag |-> "win_checker", id |-> 0], [tag |-> "hud", id |-> 0],
                      [tag |-> "tile_map", id |-> 0]>>)
  /\ sched = [tick |-> 0, turn |-> 0, count |-> 0]
  /\ hist = [NewHist({1}) EXCEPT !.kPicks = <<0, 0, 0>>]

QuestStartTick ==
  /\ sched.turn = 0
  /\ sched.tick < MaxQuestTick
  /\ \E dt \in ClockTicks :
       Commit([NoCalls(World) EXCEPT !.game.keys = Walkthrough(sched.tick + 1),
                                     !.game.clockTick = dt])
  /\ sched' = [tick |-> sched.tick + 1, turn |-> 1, count |-> Len(game.entities)]

NextQuest == QuestStartTick \/ LevelUpdate \/ EndTick

SpecQuest == InitQuest /\ [][NextQuest]_vars

-----------------------------------------------------------------------------
(* C35 *)

\* the run is over: the last tick has ended
QuestOver == sched.tick = MaxQuestTick /\ sched.turn = 0

-----------------------------------------------------------------------------
(* C36 *)

\* the run is over: the last tick has ended
OutcomeOver == sched.tick = MaxOutcomeTick /\ sched.turn = 0

\* C36: whenever the game is won the objective tracker reaches its last step
\* ("Complete!"): the updates of the HUD that follow win = true bring the
\* index there, and a won game does not end with an earlier step displayed.
C36_WonShowsComplete ==
  (game.win /\ OutcomeOver) => game.objectives.index = LastStep

-----------------------------------------------------------------------------
(* C37 *)

\* the world as the attack branches of this Player.update find it: cooldowns,
\* timers, knockback and attack input are done
AtAttackBranch ==
  LET w == NoCalls(World)
      dt == Dt(game)
  IN PlayerAttackInput(PlayerKnockback(PlayerTimers(PlayerCooldowns(w, dt), dt)))

\* this step is a Player.update that reaches the attack 1 branch on a tick of
\* the hit window (frames 2 to 4) with no hit registered yet
HitWindowTick ==
  /\ PlayerTurn
  /\ ReadsAttackKeys
  /\ LET p == AtAttackBranch.player
         frame == (p.animElapsed + Dt(game)) \div PlayerAnim["attack"].ft
     IN p.attacking /\ ~p.attackDidHit /\ frame >= 2 /\ frame <= 4

\* the enemies that are alive and not hurt-locked and whose collision box is
\* inside the attack circle of that update
Damageable ==
  {i \in DOMAIN enemies :
     /\ \E k \in EnemiesInCircle(AtAttackBranch, getAttackCircle(AtAttackBranch.player)) :
          game.entities[k].id = i
     /\ ~enemies[i].dead
     /\ ~enemies[i].hurtLocked}

\* C37: a swing of attack 1 is not wasted on an enemy that cannot be damaged:
\* on a hit-window tick with no hit registered yet, if some enemy that is
\* alive and not hurt-locked has its box inside the attack circle, the tick
\* damages such an enemy, also when a dead or hurt-locked enemy earlier in
\* the entity list is inside the circle too.
C37_SwingNotWasted ==
  [][(HitWindowTick /\ Damageable # {}) =>
       \E i \in Damageable : enemies'[i].hp < enemies[i].hp]_vars

-----------------------------------------------------------------------------
(* C38 *)

\* this step harms the player from the enemy's side: it calls
\* player.takeDamage or adds a projectile
HarmStep == hist'.pCalls > 0 \/ Len(projectiles') > Len(projectiles)

\* this step is the update of the enemy i
EnemyTurn(i) == InLoop /\ Current = [tag |-> "enemy", id |-> i]

\* C38: a dead or hurt-locked enemy never harms the player. A hit on an
\* enemy, also in the middle of a swing, ends the swing; the updates of an
\* enemy that is dead or hurt-locked make no takeDamage call on the player
\* and add no projectile; an update of an enemy harms only out of a swing
\* that is locked, and a swing gets locked only by the start of a new attack
\* of an enemy that is neither dead nor hurt-locked; a dead enemy stays dead.
C38_HitEnemyHarmless ==
  [][\A i \in DOMAIN enemies :
       /\ enemies'[i].hp < enemies[i].hp =>
            /\ ~enemies'[i].attackLocked
            /\ enemies'[i].dead \/ enemies'[i].hurtLocked
       /\ (EnemyTurn(i) /\ (enemies[i].dead \/ enemies[i].hurtLocked)) => ~HarmStep
       /\ (EnemyTurn(i) /\ HarmStep) => enemies[i].attackLocked
       /\ (~enemies[i].attackLocked /\ enemies'[i].attackLocked) =>
            /\ EnemyTurn(i)
            /\ ~enemies[i].dead /\ ~enemies[i].hurtLocked
            /\ enemies'[i].state = "attack"
            /\ enemies'[i].animElapsed = 0
       /\ enemies[i].dead => enemies'[i].dead]_vars

\* an enemy that was hit in the first ticks of its swing, before the hit
\* window, has just been updated hurt-locked with the player in its attack
\* radius, and made no call
C38_Witness ==
  \E i \in DOMAIN enemies :
    /\ hist.eLast = i
    /\ hist.uPre.hurtLocked
    /\ ~hist.uPre.attackLocked
    /\ ~hist.uPre.attackDidHit
    /\ hist.uPre.attackCooldown >= TYPES[hist.uPre.type].stats.attackCooldown - 200
    /\ TYPES[hist.uPre.type].stats.attackHitRadius > 0
    /\ isPlayerInAttackRadius(enemies[i], player)
    /\ hist.pCalls = 0
    /\ ~player.isDead

-----------------------------------------------------------------------------
(* C39: lock flags of an enemy *)

\* C39: in every reachable state no enemy has hurtLocked and attackLocked both
\* true, and a dead enemy has hurtLocked, attackLocked and spawnLocked all false
C39_LockFlagsExclusive ==
  \A i \in DOMAIN enemies :
    /\ ~(enemies[i].hurtLocked /\ enemies[i].attackLocked)
    /\ enemies[i].dead =>
         /\ ~enemies[i].hurtLocked
         /\ ~enemies[i].attackLocked
         /\ ~enemies[i].spawnLocked

\* an enemy that was hit in the middle of its swing and lived: the swing is
\* over and the hurt clip plays
C39_Witness ==
  \E i \in DOMAIN enemies :
    /\ hist.eCalls[i] > 0
    /\ hist.ePre[i].attackLocked
    /\ ~hist.ePre[i].hurtLocked
    /\ enemies[i].hp < hist.ePre[i].hp
    /\ ~enemies[i].dead
    /\ enemies[i].hurtLocked

-----------------------------------------------------------------------------
(* The player's two attacks: update with either attack key, both or none, and
   takeDamage by any caller, in any order *)

\* the most calls on the player
MaxAttackCalls == 7

\* the key sets of an attack run: none, attack 1, attack 2, both at once
AttackKeySets == {{}, {"1"}, {"2"}, {"1", "2"}}

CallAttackUpdate ==
  /\ sched.tick < MaxAttackCalls
  /\ \E keys \in AttackKeySets, dt \in ClockTicks :
       Commit(Player_update([NoCalls(World) EXCEPT !.game.keys = keys,
                                                   !.game.clockTick = dt]))
  /\ Called

CallAttackDamage ==
  /\ sched.tick < MaxAttackCalls
  /\ \E amount \in {1, PLAYER_MAX_HP}, from \in Sources :
       Commit(CallPlayerTakeDamage(NoCalls(World), amount, from))
  /\ Called

NextAttack == CallAttackUpdate \/ CallAttackDamage

SpecAttack == InitPlayer /\ [][NextAttack]_vars

\* C40: in every reachable state attacking and attacking2 are never both true,
\* also after an update with both attack keys down, and a dead player has both
\* flags false
C40_AttacksExclusive ==
  /\ ~(player.attacking /\ player.attacking2)
  /\ player.isDead => (~player.attacking /\ ~player.attacking2)

\* an update with both attack keys down, newly pressed, while attack 2 is
\* still cooling down after an earlier swing: attack 1 alone has started
C40_Witness ==
  /\ game.keys = {"1", "2"}
  /\ hist.pCalls = 0
  /\ player.attacking
  /\ ~player.attacking2
  /\ player.animElapsed = 100
  /\ player.attack2Cooldown > 0
  /\ player.attack2Cooldown < attack2CooldownTime

====
